---------------------------- MODULE Spec2Model ----------------------------
(***************************************************************************)
(* usable-discord-bot: the database-free bridge between Discord forum      *)
(* threads and Usable memory fragments.                                    *)
(*                                                                         *)
(* The specifications of this module:                                      *)
(*   SpecMarker    the marker text: the confirmation templates and the     *)
(*                 regular expression that reads the fragment id back;     *)
(*   SpecResolver  the two resolvers applied to one fetched page;          *)
(*   Spec          the handlers, the sync service and the platform, one    *)
(*                 step per await;                                         *)
(*   SpecUpdate    the update handlers on a thread already processed;      *)
(*   SpecDetect    detectChanges applied to two thread snapshots;          *)
(*   SpecBuilder   buildThreadConversation applied to one fetched page;    *)
(*   SpecRetry     retryDiscordApi, one step per attempt;                  *)
(*   SpecAggregate syncAllForums' sum of the per-forum results.            *)
(* Text is a sequence of tokens.  A token is one character, or one of the  *)
(* fixed literals of the templates (named below).                          *)
(***************************************************************************)
EXTENDS Integers, Sequences, FiniteSets, TLC

VARIABLES
    marker,      \* SpecMarker: the identifier, the message built, the id read back
    resolver,    \* SpecResolver: the drawn history and what the resolvers said
    threadName,  \* platform: thread id -> current name
    threadTags,  \* platform: thread id -> appliedTags, a list of tag ids
    messages,    \* platform: thread id -> its messages, oldest first
    fragments,   \* Usable: the fragments created so far, in order of creation
    tasks,       \* the running handlers and commands, one record per slot
    detector,    \* SpecDetect: two thread snapshots and what detectChanges said
    builder,     \* SpecBuilder: a fetched page and the conversation built from it
    retrier,     \* SpecRetry: one run of retryDiscordApi, one step per attempt
    aggregate,   \* SpecAggregate: per-forum results and syncAllForums' total
    interaction, \* SpecCommand: one slash-command interaction and its handler
    process,     \* SpecShutdown: the process, from running to exited
    health,      \* SpecHealth: the requests to the health server and its answers
    scan         \* SpecFilter: one run of syncForum over drawn thread listings

\* the variables of the process around the handlers
shell == <<interaction, process, health, scan>>

\* the variables of the specifications of single functions
units == <<detector, builder, retrier, aggregate, shell>>

vars == <<marker, resolver, threadName, threadTags, messages, fragments, tasks,
          detector, builder, retrier, aggregate, interaction, process, health,
          scan>>

\* a specification's variable while another specification runs
Off == [pc |-> "off"]

ShellIdle == interaction = Off /\ process = Off /\ health = Off /\ scan = Off

FunctionsIdle == detector = Off /\ builder = Off /\ retrier = Off /\ aggregate = Off

UnitsIdle == FunctionsIdle /\ ShellIdle

-----------------------------------------------------------------------------
(* Bounds of the model.                                                    *)

\* most applied tags of a snapshot the change-detector specification draws
MaxTags == 3
\* largest maxRetries option the retry specification draws
MaxRetriesOption == 4
\* requests to the health server in one behaviour
MaxRequests == 2

\* most threads in each of the two listings the filter specification draws
MaxListed == 1

\* longest fragment id, in characters, the marker specification draws
MaxIdLen == 3
\* most messages on a page the resolver specification draws
MaxPage == 3
\* operations (events, commands) started in one behaviour of Spec; each runs
\* in a slot of its own and any two of them may overlap
NumTasks == 2

-----------------------------------------------------------------------------
(* Characters and literals.                                                *)

\* 'Fragment ID:' exactly as the templates and includes() spell it
LABEL == "Fragment ID:"
\* the same text in another letter case: /.../i matches it, includes() does not
LABEL_LC == "fragment id:"
\* the check-mark line, '**Issue registered in Usable!**'
HDR == "**Issue registered in Usable!**"

\* characters of [a-f0-9-] and, under the i flag, their upper-case forms
LowerIdChars == {"a", "7", "-"}
UpperIdChars == {"E"}
IdChars == LowerIdChars \cup UpperIdChars
\* a character outside the class
OtherChars == {"g"}

\* the backtick
BT == "bt"
\* a line break
NL == "NL"

\* null, as a text no template or input can produce
Null == <<"null">>

-----------------------------------------------------------------------------
(* The marker text (Marker Protocol).                                      *)

\* thread-create.handler.ts: the confirmation the live handler sends
LiveConfirmation(fragmentId, name) ==
    <<HDR, NL, "memo ", LABEL, " ", BT>> \o fragmentId \o
    <<BT, NL, NL, "Title: ">> \o name \o
    <<NL, "_Your post has been automatically logged._">>

\* forum-sync: the confirmation processThread sends
RetroConfirmation(fragmentId, name) ==
    <<HDR, " ", "_(retroactive sync)_", NL, "memo ", LABEL, " ", BT>> \o
    fragmentId \o
    <<BT, NL, NL, "Title: ">> \o name \o
    <<NL, "_This post was processed during a sync operation._">>

\* thread-create.handler.ts: the failure notice
FailureNotice ==
    <<"**Failed to register issue in Usable**", NL,
      "_There was an error creating the fragment._">>

\* String.prototype.includes for a one-token needle
Includes(content, token) == \E i \in 1..Len(content) : content[i] = token

RECURSIVE RunEnd(_, _, _)
\* the first index >= j of content that is not in class (Len+1 when none)
RunEnd(content, j, class) ==
    IF j > Len(content) \/ content[j] \notin class THEN j
    ELSE RunEnd(content, j + 1, class)

\* the pattern  label, space, backtick, class+, backtick  matches content at i
MatchesAt(content, i, labels, class) ==
    /\ i + 3 <= Len(content)
    /\ content[i] \in labels
    /\ content[i + 1] = " "
    /\ content[i + 2] = BT
    /\ LET e == RunEnd(content, i + 3, class)
       IN  e > i + 3 /\ e <= Len(content) /\ content[e] = BT

\* String.prototype.match without the g flag: group 1 of the leftmost match
RegexGroup(content, labels, class) ==
    LET hits == {i \in 1..Len(content) : MatchesAt(content, i, labels, class)}
    IN  IF hits = {} THEN Null
        ELSE LET i == CHOOSE h \in hits : \A o \in hits : h <= o
             IN  SubSeq(content, i + 3, RunEnd(content, i + 3, class) - 1)

\* a slip: the pattern written without the i flag
MatchFragmentIdCaseSensitive(content) ==
    RegexGroup(content, {LABEL}, LowerIdChars)

\* content.match(/Fragment ID: BT([a-f0-9-]+)BT/i) with BT the backtick;
\* null when there is no match
MatchFragmentId(content) ==
    RegexGroup(content, {LABEL, LABEL_LC}, IdChars)

-----------------------------------------------------------------------------
(* SpecMarker: encode an identifier, then decode the message.              *)

RECURSIVE SeqsUpTo(_, _)
\* all sequences over S of length at most n
SeqsUpTo(S, n) ==
    IF n = 0 THEN {<<>>}
    ELSE LET shorter == SeqsUpTo(S, n - 1)
         IN  shorter \cup {Append(s, c) : s \in shorter, c \in S}

\* thread names: plain, and ones that look like a marker themselves
ThreadNames ==
    {<<"g">>, <<"a", BT>>, <<LABEL, " ", BT, "a", BT>>}

MarkerIdle == [pc |-> "off", id |-> <<>>, name |-> <<>>, retro |-> FALSE,
               text |-> <<>>, decoded |-> Null]

\* the identifiers, thread names and templates the specification draws from
MarkerInputs ==
    [pc : {"encode"},
     id : SeqsUpTo(IdChars \cup OtherChars, MaxIdLen),
     name : ThreadNames, retro : BOOLEAN,
     text : {<<>>}, decoded : {Null}]

\* thread.send is given the confirmation built from the template
Encode ==
    /\ marker.pc = "encode"
    /\ marker' = [marker EXCEPT
                    !.pc = "decode",
                    !.text = IF marker.retro
                             THEN RetroConfirmation(marker.id, marker.name)
                             ELSE LiveConfirmation(marker.id, marker.name)]
    /\ UNCHANGED <<units, resolver, threadName, threadTags, messages, fragments, tasks>>

\* the message's content is matched against the pattern
Decode ==
    /\ marker.pc = "decode"
    /\ marker' = [marker EXCEPT !.pc = "done",
                                !.decoded = MatchFragmentId(marker.text)]
    /\ UNCHANGED <<units, resolver, threadName, threadTags, messages, fragments, tasks>>

-----------------------------------------------------------------------------
(* Messages and the two resolvers (Thread State Resolver).                 *)

\* client.user.id, the bridge's own author id
BotUserId == "bridge"
\* msg.author.bot
IsBot(author) == author \in {BotUserId, "otherbot"}

\* messages.fetch({ limit: 10 }) in isThreadProcessed
ProcessedLookback == 10
\* messages.fetch({ limit: 50 }) in findFragmentIdInThread
FragmentLookback == 50
\* messages.fetch({ limit: 100 }) in buildThreadConversation
ConversationLookback == 100

Min(a, b) == IF a < b THEN a ELSE b

\* the page taken from the oldest end of the history
FetchPageOldest(history, limit) ==
    LET n == Min(Len(history), limit)
    IN  [i \in 1..n |-> history[n - i + 1]]

\* the whole history as one page, whatever the limit
FetchPageAll(history, limit) ==
    [i \in 1..Len(history) |-> history[Len(history) - i + 1]]

\* the platform's answer to messages.fetch({ limit }): the newest limit
\* messages of the history (kept oldest first), newest first
FetchPage(history, limit) ==
    LET n == Min(Len(history), limit)
    IN  [i \in 1..n |-> history[Len(history) - i + 1]]

\* a fetch that rejected
FetchFailed == [ok |-> FALSE, page |-> <<>>]
FetchOk(history, limit) == [ok |-> TRUE, page |-> FetchPage(history, limit)]

\* Collection.find: of the positions that satisfy the predicate, the first in
\* iteration order; 0 when there is none
FirstIndex(hits) ==
    IF hits = {} THEN 0 ELSE CHOOSE h \in hits : \A o \in hits : h <= o

\* the predicate of messages.find in findFragmentIdInThread
IsLabelledBotMessage(msg) ==
    msg.author = BotUserId /\ Includes(msg.content, LABEL)

\* thread-update / message-create handlers: findFragmentIdInThread, given the
\* outcome of its messages.fetch; the catch block returns null
findFragmentIdInThread(fetched) ==
    IF ~fetched.ok THEN Null
    ELSE LET i == FirstIndex({j \in 1..Len(fetched.page) :
                                 IsLabelledBotMessage(fetched.page[j])})
         IN  IF i = 0 THEN Null ELSE MatchFragmentId(fetched.page[i].content)

\* what findFragmentIdInThread writes to the log: one error in its catch block
findFragmentIdLogs(fetched) ==
    IF ~fetched.ok THEN {[level |-> "error", at |-> "findFragmentIdInThread"]}
    ELSE {}

\* a slip: any message of the bridge taken for a confirmation
isThreadProcessedAnyBridge(fetched) ==
    IF ~fetched.ok THEN TRUE
    ELSE \E i \in 1..Len(fetched.page) : fetched.page[i].author = BotUserId

\* forum-sync: isThreadProcessed, given the outcome of its messages.fetch;
\* the bare catch returns true
isThreadProcessed(fetched) ==
    IF ~fetched.ok THEN TRUE
    ELSE \E i \in 1..Len(fetched.page) :
            /\ fetched.page[i].author = BotUserId
            /\ \/ Includes(fetched.page[i].content, HDR)
               \/ Includes(fetched.page[i].content, LABEL)

\* what isThreadProcessed writes to the log: nothing
isThreadProcessedLogs(fetched) == {}

-----------------------------------------------------------------------------
(* SpecResolver: both resolvers over one drawn history.                    *)

\* contents a message of the drawn history can have
PageContents ==
    { LiveConfirmation(<<"a">>, <<"g">>),
      RetroConfirmation(<<"7", "E">>, <<"g">>),
      LiveConfirmation(<<"g">>, <<"g">>),
      FailureNotice,
      <<HDR>>,
      <<"g">> }

ResolverIdle == [pc |-> "off", history |-> <<>>, findFetch |-> FetchFailed,
                 fragmentId |-> Null, procFetch |-> FetchFailed,
                 processed |-> FALSE, logs |-> {}]

\* histories, oldest first; createdTimestamp is the position
Histories ==
    UNION { [1..n -> [author : {BotUserId, "human"}, content : PageContents]] :
            n \in 0..MaxPage }

Stamp(history) ==
    [i \in 1..Len(history) |->
        [author |-> history[i].author, content |-> history[i].content,
         createdTimestamp |-> i]]

\* the resolver records the specification starts from, one per history
ResolverInputs ==
    {[ResolverIdle EXCEPT !.pc = "find", !.history = Stamp(h)] : h \in Histories}

\* findFragmentIdInThread runs: its fetch resolves or rejects
RunFindFragmentId ==
    /\ resolver.pc = "find"
    /\ \E fetched \in {FetchOk(resolver.history, FragmentLookback), FetchFailed} :
          resolver' = [resolver EXCEPT
                         !.pc = "processed",
                         !.findFetch = fetched,
                         !.fragmentId = findFragmentIdInThread(fetched),
                         !.logs = @ \cup findFragmentIdLogs(fetched)]
    /\ UNCHANGED <<units, marker, threadName, threadTags, messages, fragments, tasks>>

\* isThreadProcessed runs: its fetch resolves or rejects
RunIsThreadProcessed ==
    /\ resolver.pc = "processed"
    /\ \E fetched \in {FetchOk(resolver.history, ProcessedLookback), FetchFailed} :
          resolver' = [resolver EXCEPT
                         !.pc = "done",
                         !.procFetch = fetched,
                         !.processed = isThreadProcessed(fetched),
                         !.logs = @ \cup isThreadProcessedLogs(fetched)]
    /\ UNCHANGED <<units, marker, threadName, threadTags, messages, fragments, tasks>>

-----------------------------------------------------------------------------
(* Configuration and the platform's static data.                           *)

\* env.DISCORD_FORUM_MAPPINGS: forum channel id -> fragment type id
DISCORD_FORUM_MAPPINGS == [f \in {"f1"} |-> "type-1"]
\* env.USABLE_WORKSPACE_ID
USABLE_WORKSPACE_ID == "ws-1"

\* config/env: forumChannelId in env.DISCORD_FORUM_MAPPINGS
isForumTracked(forumChannelId) == forumChannelId \in DOMAIN DISCORD_FORUM_MAPPINGS

\* config/env: env.DISCORD_FORUM_MAPPINGS[forumChannelId] || null
getFragmentTypeForForum(forumChannelId) ==
    IF forumChannelId \in DOMAIN DISCORD_FORUM_MAPPINGS
    THEN DISCORD_FORUM_MAPPINGS[forumChannelId]
    ELSE "null"

\* the forum channels of the guild: f1 is mapped, f2 is not
Forums == {"f1", "f2"}
\* thread.parentId; every thread of the model is a forum thread
Parent == [t \in {"t1", "u1"} |-> IF t = "t1" THEN "f1" ELSE "f2"]
Threads == DOMAIN Parent
\* forum.threads.fetchActive() and fetchArchived(): the threads of a forum,
\* all of them created within maxAgeHours here
ForumThreads(f) == IF f = "f1" THEN <<"t1">> ELSE <<"u1">>
\* forum.name and thread.guild.name
ForumName(f) == IF f = "f1" THEN <<"B", "u", " ", " ", "g">> ELSE <<"g">>
GuildName == <<"E", " ", "a">>
\* names a thread can be given
SpecNames == {<<"g">>, <<"a", BT>>}
\* appliedTags a thread can be given
SpecTags == {<<>>, <<"x">>}
\* forum.availableTags.find(t => t.id === tagId): the tag's name, if any
AvailableTagName(tagId) == IF tagId = "x" THEN <<"B", " ", "g">> ELSE Null

-----------------------------------------------------------------------------
(* usable-api.service: the request builders.                               *)

\* String.prototype.toLowerCase on one character
ToLower(c) == CASE c = "E" -> "e" [] c = "B" -> "b" [] OTHER -> c

RECURSIVE Hyphenate(_, _)
\* s.toLowerCase().replace(/\s+/g, '-'): inRun says the previous character
\* was white space already replaced
Hyphenate(s, inRun) ==
    IF s = <<>> THEN <<>>
    ELSE IF Head(s) = " "
         THEN (IF inRun THEN <<>> ELSE <<"-">>) \o Hyphenate(Tail(s), TRUE)
         ELSE <<ToLower(Head(s))>> \o Hyphenate(Tail(s), FALSE)

\* UsableApiService.generateTags
generateTags(guildName, channelName) ==
    <<<<"discord">>, <<"forum-post">>>>
    \o (IF guildName # <<>>
        THEN <<<<"server:">> \o Hyphenate(guildName, FALSE)>> ELSE <<>>)
    \o (IF channelName # <<>>
        THEN <<<<"channel:">> \o Hyphenate(channelName, FALSE)>> ELSE <<>>)

\* UsableApiService.formatThreadContent
formatThreadContent(authorUsername, messageContent, threadNm, channelName, guildName, timestamp) ==
    <<"## Discord Thread Message", NL, NL>>
    \o (IF guildName # <<>>
        THEN <<"**Server:** ">> \o guildName \o <<NL>> ELSE <<>>)
    \o (IF channelName # <<>>
        THEN <<"**Channel:** ">> \o channelName \o <<NL>> ELSE <<>>)
    \o (IF threadNm # <<>>
        THEN <<"**Thread:** ">> \o threadNm \o <<NL>> ELSE <<>>)
    \o <<"**Author:** ", authorUsername, NL, "**Posted:** ", timestamp, NL, NL>>
    \o <<"---", NL, NL>> \o messageContent

NoRequest == [kind |-> "none"]

\* a slip: the title taken from the starter message, not from the thread
CreateRequestStarterTitle(name, forum, starter, retro) ==
    [kind |-> "create", title |-> starter.content,
     content |-> formatThreadContent(starter.author, starter.content, name,
                                     ForumName(forum), GuildName,
                                     ToString(starter.createdTimestamp)),
     workspaceId |-> USABLE_WORKSPACE_ID,
     fragmentTypeId |-> getFragmentTypeForForum(forum),
     summary |-> <<"Forum post by ", starter.author, ": ">> \o name,
     tags |-> generateTags(GuildName, ForumName(forum))
              \o <<<<"repo:usable-discord-bot">>>>
              \o (IF retro THEN <<<<"retroactive-sync">>>> ELSE <<>>),
     repository |-> "usable-discord-bot"]

\* the argument of createFragment in handleThreadCreate (retro = FALSE) and
\* in processThread (retro = TRUE)
CreateRequest(name, forum, starter, retro) ==
    [kind |-> "create", title |-> name,
     content |-> formatThreadContent(starter.author, starter.content, name,
                                     ForumName(forum), GuildName,
                                     ToString(starter.createdTimestamp)),
     workspaceId |-> USABLE_WORKSPACE_ID,
     fragmentTypeId |-> getFragmentTypeForForum(forum),
     summary |-> <<"Forum post by ", starter.author, ": ">> \o name,
     tags |-> generateTags(GuildName, ForumName(forum))
              \o <<<<"repo:usable-discord-bot">>>>
              \o (IF retro THEN <<<<"retroactive-sync">>>> ELSE <<>>),
     repository |-> "usable-discord-bot"]

\* the fragment id the API gives the n-th fragment: n-1 times a, then 7
FragmentIdOf(n) == [i \in 1..n |-> IF i = n THEN "7" ELSE "a"]

\* the fragment a successful POST /memory-fragments stores
StoredFragment(request, thread) ==
    [thread |-> thread, title |-> request.title, content |-> request.content,
     tags |-> request.tags, fragmentTypeId |-> request.fragmentTypeId]

-----------------------------------------------------------------------------
(* Spec: tasks.  A task is one run of a handler or of a sync-service       *)
(* function; pc names the await it is suspended at.                        *)

Tasks == 1..NumTasks

\* SyncResult as syncForum creates it
ZeroResult == [scannedThreads |-> 0, unprocessedThreads |-> 0,
               processedThreads |-> 0, failedThreads |-> 0,
               skippedThreads |-> 0, errors |-> <<>>]

\* A slot no operation has used yet.  creates, updates and posts count the
\* calls the operation has issued (posts: the sends the platform accepted);
\* logs holds what was logged at error level, and the handlers' warnings
\* (not the retry wrapper's per-attempt warning);
\* processedAtStart, overlap and resolveFailed are history: the threads that
\* held a confirmation when the operation began, the slots that were running
\* then, and whether a resolver's messages.fetch rejected in this operation;
\* eventChanges is what detectChanges says of the two snapshots as they were
\* when Events.ThreadUpdate was emitted.
NoTask == [op |-> "none", pc |-> "idle", thread |-> "none", forum |-> "none",
           force |-> FALSE, dryRun |-> FALSE, oldName |-> <<>>, oldTags |-> <<>>,
           fragmentId |-> Null, fragment |-> Null, pending |-> <<>>,
           request |-> NoRequest, attempt |-> 0, queue |-> <<>>,
           result |-> ZeroResult, returned |-> "none",
           creates |-> 0, updates |-> 0, posts |-> 0, logs |-> {},
           processedAtStart |-> {}, overlap |-> {}, resolveFailed |-> FALSE,
           eventChanges |-> <<>>]

Running(k) == tasks[k].pc \notin {"idle", "done"}

\* slot k is the next one to use: slots are taken in order
Free(k) == tasks[k].pc = "idle" /\ \A j \in 1..(k - 1) : tasks[j].pc # "idle"

Log(level, at) == [level |-> level, at |-> at]

\* the record of an operation that begins now
Begin(k, op, thread, forum) ==
    [NoTask EXCEPT !.op = op, !.thread = thread, !.forum = forum,
                   !.processedAtStart =
                       {t \in Threads :
                           isThreadProcessed(FetchOk(messages[t], ProcessedLookback))},
                   !.overlap = {j \in Tasks : j # k /\ Running(j)}]

\* the operation is over: what it returned (void, true, false, result, threw)
Finish(task, returned) == [task EXCEPT !.pc = "done", !.returned = returned]

\* the message the platform stores for an accepted thread.send
Posted(t, author, content) ==
    Append(messages[t], [author |-> author, content |-> content,
                         createdTimestamp |-> Len(messages[t]) + 1])

\* thread.fetchStarterMessage(): the message that opened the thread
StarterMessage(t) == messages[t][1]

Init ==
    /\ marker = MarkerIdle
    /\ resolver = ResolverIdle
    /\ threadName = [t \in Threads |-> <<"g">>]
    /\ threadTags = [t \in Threads |-> <<>>]
    /\ messages = [t \in Threads |->
                     <<[author |-> "human", content |-> <<"7", "g">>,
                        createdTimestamp |-> 1]>>]
    /\ fragments = <<>>
    /\ tasks = [k \in Tasks |-> NoTask]
    /\ UnitsIdle

-----------------------------------------------------------------------------
(* What a fetch of the starter message can end with, and the retry         *)
(* wrapper's decision with its default options.                            *)

\* retryDiscordApi: maxRetries = 3
MaxRetries == 3
\* Discord's error code for Unknown Message, the only one retried
UnknownMessage == 10008
\* what one attempt of the wrapped call can end with: a value, error 10008,
\* or an error with another code
AttemptOutcomes == {0, UnknownMessage, 50001}

\* retryDiscordApi, lines 63-96: after a failed attempt, try again?
ShouldRetry(attempt, errorCode) ==
    errorCode = UnknownMessage /\ attempt # MaxRetries - 1

\* the error entry a failed starter fetch leaves in the log of the live
\* handler (fetchStarterMessage's catch) and of the retry wrapper (its give-up
\* branch); both log the error, so the entry tells its code
StarterErrorLog(errorCode) ==
    Log("error", IF errorCode = UnknownMessage
                 THEN "fetching starter message: 10008"
                 ELSE "fetching starter message")
RetriesErrorLog(errorCode) ==
    Log("error", IF errorCode = UnknownMessage
                 THEN "Discord API call failed after retries: 10008"
                 ELSE "Discord API call failed after retries")

-----------------------------------------------------------------------------
(* handleThreadCreate (thread-create.handler.ts).                          *)

\* a slip: the tracked-forum test left out
ThreadCreateEntryUnfiltered(k, t) ==
    [Begin(k, "threadCreate", t, Parent[t]) EXCEPT !.pc = "tc_starter"]

\* lines 29-63: the filters, then fetchStarterMessage is awaited
ThreadCreateEntry(k, t) ==
    LET b == Begin(k, "threadCreate", t, Parent[t])
    IN  IF ~isForumTracked(Parent[t])
        THEN Finish([b EXCEPT !.logs = @ \cup {Log("debug", "not tracked")}], "void")
        ELSE IF getFragmentTypeForForum(Parent[t]) = "null"
        THEN Finish([b EXCEPT !.logs = @ \cup {Log("error", "no fragment type")}], "void")
        ELSE [b EXCEPT !.pc = "tc_starter",
                       !.logs = @ \cup {Log("info", "New forum thread created")}]

\* Events.ThreadCreate is delivered for thread t
StartThreadCreate(k, t) ==
    /\ Free(k)
    /\ tasks' = [tasks EXCEPT ![k] = ThreadCreateEntry(k, t)]
    /\ UNCHANGED <<units, marker, resolver, threadName, threadTags, messages, fragments>>

\* lines 63-94 and 127-145: the one thread.fetchStarterMessage() of
\* fetchStarterMessage resolved, or rejected and the catch returned null; on a
\* starter, createFragment is called with the thread's name as it is now
ThreadCreateAfterStarter(task, outcome) ==
    IF outcome # 0
    THEN Finish([task EXCEPT !.logs = @ \cup {StarterErrorLog(outcome),
                                              Log("warn", "no starter message")}],
                "void")
    ELSE [task EXCEPT !.pc = "tc_create",
                      !.request = CreateRequest(threadName[task.thread], task.forum,
                                                StarterMessage(task.thread), FALSE),
                      !.creates = @ + 1]

TcStarter(k) ==
    /\ tasks[k].pc = "tc_starter"
    /\ \E outcome \in AttemptOutcomes :
          tasks' = [tasks EXCEPT ![k] = ThreadCreateAfterStarter(tasks[k], outcome)]
    /\ UNCHANGED <<units, marker, resolver, threadName, threadTags, messages, fragments>>

\* a slip: a failed createFragment called again
ThreadCreateAfterCreateRetrying(task, fragmentId) ==
    IF fragmentId # Null
    THEN [task EXCEPT !.pc = "tc_send", !.fragment = fragmentId,
                      !.pending = LiveConfirmation(fragmentId, threadName[task.thread])]
    ELSE [task EXCEPT !.creates = @ + 1,
                      !.logs = @ \cup {Log("error", "Failed to create Usable fragment")}]

\* lines 96-115: createFragment returned a fragment or null; thread.send is
\* called with the confirmation or with the failure notice
ThreadCreateAfterCreate(task, fragmentId) ==
    IF fragmentId # Null
    THEN [task EXCEPT !.pc = "tc_send", !.fragment = fragmentId,
                      !.pending = LiveConfirmation(fragmentId, threadName[task.thread])]
    ELSE [task EXCEPT !.pc = "tc_send", !.fragment = Null,
                      !.pending = FailureNotice,
                      !.logs = @ \cup {Log("error", "Failed to create Usable fragment")}]

\* POST /memory-fragments answered: the fragment is stored, or the call failed
TcCreate(k) ==
    /\ tasks[k].pc = "tc_create"
    /\ \/ /\ fragments' = Append(fragments,
                                 StoredFragment(tasks[k].request, tasks[k].thread))
          /\ tasks' = [tasks EXCEPT ![k] =
                 ThreadCreateAfterCreate(tasks[k], FragmentIdOf(Len(fragments) + 1))]
       \/ /\ fragments' = fragments
          /\ tasks' = [tasks EXCEPT ![k] = ThreadCreateAfterCreate(tasks[k], Null)]
    /\ UNCHANGED <<units, marker, resolver, threadName, threadTags, messages>>

\* lines 98-121: thread.send resolved, or it rejected and the catch logs
ThreadCreateAfterSend(task, ok) ==
    IF ok
    THEN Finish([task EXCEPT !.posts = @ + 1,
                             !.logs = @ \cup (IF task.fragment # Null
                                              THEN {Log("info", "created and notified")}
                                              ELSE {})],
                "void")
    ELSE Finish([task EXCEPT !.logs = @ \cup {Log("error", "Error handling thread creation")}],
                "void")

TcSend(k) ==
    /\ tasks[k].pc = "tc_send"
    /\ \/ /\ messages' = [messages EXCEPT ![tasks[k].thread] =
                             Posted(tasks[k].thread, BotUserId, tasks[k].pending)]
          /\ tasks' = [tasks EXCEPT ![k] = ThreadCreateAfterSend(tasks[k], TRUE)]
       \/ /\ messages' = messages
          /\ tasks' = [tasks EXCEPT ![k] = ThreadCreateAfterSend(tasks[k], FALSE)]
    /\ UNCHANGED <<units, marker, resolver, threadName, threadTags, fragments>>

-----------------------------------------------------------------------------
(* handleThreadUpdate (thread-update.handler.ts).                          *)

ToSet(seq) == {seq[i] : i \in 1..Len(seq)}

\* a slip: the applied tags compared as lists, in order
detectChangesOrdered(oldName, oldTags, newName, newTags) ==
    (IF oldName # newName THEN <<"title">> ELSE <<>>)
    \o (IF oldTags # newTags THEN <<"tags">> ELSE <<>>)

\* detectChanges(oldThread, newThread): the list of changed fields
detectChanges(oldName, oldTags, newName, newTags) ==
    (IF oldName # newName THEN <<"title">> ELSE <<>>)
    \o (IF \/ Cardinality(ToSet(oldTags)) # Cardinality(ToSet(newTags))
           \/ ~(\A tag \in ToSet(oldTags) : tag \in ToSet(newTags))
        THEN <<"tags">> ELSE <<>>)

RECURSIVE DiscordTags(_)
\* appliedTags mapped to discord-tag:<name>, tags the forum does not know dropped
DiscordTags(applied) ==
    IF applied = <<>> THEN <<>>
    ELSE (IF AvailableTagName(Head(applied)) = Null THEN <<>>
          ELSE <<<<"discord-tag:">> \o Hyphenate(AvailableTagName(Head(applied)), FALSE)>>)
         \o DiscordTags(Tail(applied))

\* lines 68-112: the update payload; fields holds the keys that are present
UpdatePayload(fragmentId, changes, name, applied, forum) ==
    [kind |-> "update", fragmentId |-> fragmentId,
     fields |-> (IF "title" \in ToSet(changes) THEN {"title"} ELSE {})
                \cup (IF "tags" \in ToSet(changes) THEN {"tags"} ELSE {}),
     title |-> IF "title" \in ToSet(changes) THEN name ELSE <<>>,
     tags |-> IF "tags" \in ToSet(changes)
              THEN generateTags(GuildName, ForumName(forum))
                   \o DiscordTags(applied) \o <<<<"repo:usable-discord-bot">>>>
              ELSE <<>>,
     content |-> <<>>]

\* lines 36-46: the filters, then findFragmentIdInThread is awaited; oldThread
\* is the copy taken before the change, newThread the thread as changed
ThreadUpdateEntry(k, t) ==
    LET b == [Begin(k, "threadUpdate", t, Parent[t])
                 EXCEPT !.oldName = threadName[t], !.oldTags = threadTags[t],
                        !.eventChanges = detectChanges(threadName[t], threadTags[t],
                                                       threadName'[t], threadTags'[t])]
    IN  IF ~isForumTracked(Parent[t]) THEN Finish(b, "void")
        ELSE [b EXCEPT !.pc = "tu_find"]

\* the platform changes the thread (name, tags, or something the bridge does
\* not compare) and delivers Events.ThreadUpdate with the old snapshot
StartThreadUpdate(k, t) ==
    /\ Free(k)
    /\ \E name \in SpecNames, applied \in SpecTags :
          /\ threadName' = [threadName EXCEPT ![t] = name]
          /\ threadTags' = [threadTags EXCEPT ![t] = applied]
    /\ tasks' = [tasks EXCEPT ![k] = ThreadUpdateEntry(k, t)]
    /\ UNCHANGED <<units, marker, resolver, messages, fragments>>

\* lines 46-115: the lookup returned; newThread is the live thread object
ThreadUpdateAfterFind(task, fetched) ==
    LET id == findFragmentIdInThread(fetched)
        found == [task EXCEPT !.fragmentId = id,
                              !.resolveFailed = ~fetched.ok,
                              !.logs = @ \cup findFragmentIdLogs(fetched)]
        changes == detectChanges(task.oldName, task.oldTags,
                                 threadName[task.thread], threadTags[task.thread])
    IN  IF id = Null
        THEN Finish([found EXCEPT !.logs = @ \cup {Log("debug", "No fragment ID found")}],
                    "void")
        ELSE IF changes = <<>> THEN Finish(found, "void")
        ELSE [found EXCEPT !.pc = "tu_update",
                           !.request = UpdatePayload(id, changes, threadName[task.thread],
                                                     threadTags[task.thread], task.forum),
                           !.updates = @ + 1,
                           !.logs = @ \cup {Log("info", "Thread updated - syncing")}]

TuFind(k) ==
    /\ tasks[k].pc = "tu_find"
    /\ \E fetched \in {FetchOk(messages[tasks[k].thread], FragmentLookback), FetchFailed} :
          tasks' = [tasks EXCEPT ![k] = ThreadUpdateAfterFind(tasks[k], fetched)]
    /\ UNCHANGED <<units, marker, resolver, threadName, threadTags, messages, fragments>>

\* the index in fragments of the fragment with this id, 0 when there is none
FragmentIndex(fragmentId) ==
    IF Len(fragmentId) \in 1..Len(fragments) /\ FragmentIdOf(Len(fragmentId)) = fragmentId
    THEN Len(fragmentId) ELSE 0

\* PATCH /memory-fragments/{id}: the fields of the payload overwrite the fragment
Patched(request) ==
    LET i == FragmentIndex(request.fragmentId)
    IN  [fragments EXCEPT
            ![i].title = IF "title" \in request.fields THEN request.title ELSE @,
            ![i].tags = IF "tags" \in request.fields THEN request.tags ELSE @,
            ![i].content = IF "content" \in request.fields THEN request.content ELSE @]

\* updateFragment returned true or false; both handlers only log it
AfterUpdate(task, success) ==
    Finish([task EXCEPT !.logs = @ \cup {IF success
                                         THEN Log("info", "Successfully updated")
                                         ELSE Log("error", "Failed to update")}],
           "void")

\* PATCH answered: applied, or the call failed
UpdateAnswered(k) ==
    \/ /\ FragmentIndex(tasks[k].request.fragmentId) # 0
       /\ fragments' = Patched(tasks[k].request)
       /\ tasks' = [tasks EXCEPT ![k] = AfterUpdate(tasks[k], TRUE)]
    \/ /\ fragments' = fragments
       /\ tasks' = [tasks EXCEPT ![k] = AfterUpdate(tasks[k], FALSE)]

TuUpdate(k) ==
    /\ tasks[k].pc = "tu_update"
    /\ UpdateAnswered(k)
    /\ UNCHANGED <<units, marker, resolver, threadName, threadTags, messages>>

-----------------------------------------------------------------------------
(* handleMessageCreate (src/handlers/message-create.handler.ts), the       *)
(* handler bot.ts registers for Events.MessageCreate.                      *)

\* a slip: the test of message.author.bot left out
MessageCreateEntryUnfiltered(k, t, author) ==
    LET b == Begin(k, "messageCreate", t, Parent[t])
    IN  IF ~isForumTracked(Parent[t]) THEN Finish(b, "void")
        ELSE [b EXCEPT !.pc = "mc_find"]

\* lines 31-64: the filters, then findFragmentIdInThread is awaited
MessageCreateEntry(k, t, author) ==
    LET b == Begin(k, "messageCreate", t, Parent[t])
    IN  IF IsBot(author) THEN Finish(b, "void")
        ELSE IF ~isForumTracked(Parent[t]) THEN Finish(b, "void")
        ELSE [b EXCEPT !.pc = "mc_find"]

\* a person replies in thread t and Events.MessageCreate is delivered
StartMessageCreate(k, t) ==
    /\ Free(k)
    /\ messages' = [messages EXCEPT ![t] = Posted(t, "human", <<"a">>)]
    /\ tasks' = [tasks EXCEPT ![k] = MessageCreateEntry(k, t, "human")]
    /\ UNCHANGED <<units, marker, resolver, threadName, threadTags, fragments>>

\* Events.MessageCreate is delivered for a message the bridge itself posted
StartMessageCreateOwn(k, t) ==
    /\ Free(k)
    /\ \E i \in 1..Len(messages[t]) : messages[t][i].author = BotUserId
    /\ tasks' = [tasks EXCEPT ![k] = MessageCreateEntry(k, t, BotUserId)]
    /\ UNCHANGED <<units, marker, resolver, threadName, threadTags, messages, fragments>>

\* lines 64-83: the lookup returned; the reply is logged and the handler
\* returns, the update being a TODO
MessageCreateAfterFind(task, fetched) ==
    LET id == findFragmentIdInThread(fetched)
        found == [task EXCEPT !.fragmentId = id,
                              !.resolveFailed = ~fetched.ok,
                              !.logs = @ \cup findFragmentIdLogs(fetched)]
    IN  IF id = Null
        THEN Finish([found EXCEPT !.logs = @ \cup {Log("debug", "No fragment ID found")}],
                    "void")
        ELSE Finish([found EXCEPT !.logs = @ \cup {Log("info", "Thread reply detected")}],
                    "void")

McFind(k) ==
    /\ tasks[k].pc = "mc_find"
    /\ \E fetched \in {FetchOk(messages[tasks[k].thread], FragmentLookback), FetchFailed} :
          tasks' = [tasks EXCEPT ![k] = MessageCreateAfterFind(tasks[k], fetched)]
    /\ UNCHANGED <<units, marker, resolver, threadName, threadTags, messages, fragments>>

-----------------------------------------------------------------------------
(* The reply handler with the update step: the variant of                  *)
(* message-create.handler.ts that builds the conversation and calls        *)
(* updateFragment.  bot.ts registers the other one, above.                 *)

RECURSIVE SortByTimestamp(_)
\* Collection.sort((a, b) => a.createdTimestamp - b.createdTimestamp)
SortByTimestamp(msgs) ==
    IF msgs = <<>> THEN <<>>
    ELSE LET least == CHOOSE i \in 1..Len(msgs) :
                         \A j \in 1..Len(msgs) :
                            \/ msgs[i].createdTimestamp < msgs[j].createdTimestamp
                            \/ (msgs[i].createdTimestamp = msgs[j].createdTimestamp /\ i <= j)
             rest == [j \in 1..(Len(msgs) - 1) |-> IF j < least THEN msgs[j] ELSE msgs[j + 1]]
         IN  <<msgs[least]>> \o SortByTimestamp(rest)

RECURSIVE JoinBlocks(_)
\* formattedMessages.join('\n\n---\n\n')
JoinBlocks(blocks) ==
    IF blocks = <<>> THEN <<>>
    ELSE IF Len(blocks) = 1 THEN blocks[1]
    ELSE blocks[1] \o <<NL, NL, "---", NL, NL>> \o JoinBlocks(Tail(blocks))

\* one block: '### username - ISO timestamp', a blank line, the content
FormatBlock(msg) ==
    <<"### ", msg.author, " - ", ToString(msg.createdTimestamp), NL, NL>> \o msg.content

\* a slip: the sort left out, the blocks in the order of the fetched page
buildThreadConversationUnsorted(fetched) ==
    IF ~fetched.ok THEN Null
    ELSE LET userMessages == SelectSeq(fetched.page, LAMBDA msg : ~IsBot(msg.author))
         IN  IF userMessages = <<>> THEN Null
             ELSE JoinBlocks([i \in 1..Len(userMessages) |-> FormatBlock(userMessages[i])])

\* buildThreadConversation, given the outcome of its messages.fetch
buildThreadConversation(fetched) ==
    IF ~fetched.ok THEN Null
    ELSE LET userMessages == SortByTimestamp(
                 SelectSeq(fetched.page, LAMBDA msg : ~IsBot(msg.author)))
         IN  IF userMessages = <<>> THEN Null
             ELSE JoinBlocks([i \in 1..Len(userMessages) |-> FormatBlock(userMessages[i])])

\* UsableApiService.formatThreadUpdate
formatThreadUpdate(conversationContent, threadNm, channelName, guildName, timestamp) ==
    <<"## Discord Thread Conversation", NL, NL>>
    \o (IF guildName # <<>>
        THEN <<"**Server:** ">> \o guildName \o <<NL>> ELSE <<>>)
    \o (IF channelName # <<>>
        THEN <<"**Channel:** ">> \o channelName \o <<NL>> ELSE <<>>)
    \o (IF threadNm # <<>>
        THEN <<"**Thread:** ">> \o threadNm \o <<NL>> ELSE <<>>)
    \o <<"**Last Updated:** ", timestamp, NL, NL, "---", NL, NL>>
    \o conversationContent

\* the argument of updateFragment in handleMessageCreate
ContentPayload(fragmentId, conversation, name, forum) ==
    [kind |-> "update", fragmentId |-> fragmentId, fields |-> {"content"},
     title |-> <<>>, tags |-> <<>>,
     content |-> formatThreadUpdate(conversation, name, ForumName(forum),
                                    GuildName, "now")]

\* lines 29-62 of the variant: the same filters, then findFragmentIdInThread
MessageCreateUpdatingEntry(k, t, author) ==
    LET b == Begin(k, "messageCreateUpdating", t, Parent[t])
    IN  IF IsBot(author) THEN Finish(b, "void")
        ELSE IF ~isForumTracked(Parent[t]) THEN Finish(b, "void")
        ELSE [b EXCEPT !.pc = "mcu_find"]

\* a person replies in thread t and the variant handles Events.MessageCreate
StartMessageCreateUpdating(k, t) ==
    /\ Free(k)
    /\ messages' = [messages EXCEPT ![t] = Posted(t, "human", <<"a">>)]
    /\ tasks' = [tasks EXCEPT ![k] = MessageCreateUpdatingEntry(k, t, "human")]
    /\ UNCHANGED <<units, marker, resolver, threadName, threadTags, fragments>>

\* lines 62-79: the lookup returned; buildThreadConversation is awaited
MessageCreateUpdatingAfterFind(task, fetched) ==
    LET id == findFragmentIdInThread(fetched)
        found == [task EXCEPT !.fragmentId = id,
                              !.resolveFailed = ~fetched.ok,
                              !.logs = @ \cup findFragmentIdLogs(fetched)]
    IN  IF id = Null
        THEN Finish([found EXCEPT !.logs = @ \cup {Log("debug", "No fragment ID found")}],
                    "void")
        ELSE [found EXCEPT !.pc = "mc_build",
                           !.logs = @ \cup {Log("info", "Thread reply detected")}]

McuFind(k) ==
    /\ tasks[k].pc = "mcu_find"
    /\ \E fetched \in {FetchOk(messages[tasks[k].thread], FragmentLookback), FetchFailed} :
          tasks' = [tasks EXCEPT ![k] = MessageCreateUpdatingAfterFind(tasks[k], fetched)]
    /\ UNCHANGED <<units, marker, resolver, threadName, threadTags, messages, fragments>>

\* lines 79-97: the conversation was built, or not; updateFragment is called
MessageCreateAfterBuild(task, fetched) ==
    LET conversation == buildThreadConversation(fetched)
    IN  IF conversation = Null
        THEN Finish([task EXCEPT !.logs = @ \cup
                        (IF fetched.ok THEN {} ELSE {Log("error", "building conversation")})
                        \cup {Log("warn", "Could not build thread conversation")}],
                    "void")
        ELSE [task EXCEPT !.pc = "mc_update",
                          !.request = ContentPayload(task.fragmentId, conversation,
                                                     threadName[task.thread], task.forum),
                          !.updates = @ + 1]

McBuild(k) ==
    /\ tasks[k].pc = "mc_build"
    /\ \E fetched \in {FetchOk(messages[tasks[k].thread], ConversationLookback), FetchFailed} :
          tasks' = [tasks EXCEPT ![k] = MessageCreateAfterBuild(tasks[k], fetched)]
    /\ UNCHANGED <<units, marker, resolver, threadName, threadTags, messages, fragments>>

McUpdate(k) ==
    /\ tasks[k].pc = "mc_update"
    /\ UpdateAnswered(k)
    /\ UNCHANGED <<units, marker, resolver, threadName, threadTags, messages>>

-----------------------------------------------------------------------------
(* The sync service (sync.service.ts): syncThread, syncForum, processThread *)
(* and the retry wrapper around fetchStarterMessage.                       *)

\* the sweep goes on with the next thread of its queue, or returns its result
SweepNext(task) ==
    IF task.queue = <<>> THEN Finish(task, "result")
    ELSE [task EXCEPT !.pc = "sf_resolve", !.thread = Head(task.queue)]

\* processThread returned success (TRUE/FALSE) to syncThread or to syncForum
ProcessReturn(task, success) ==
    IF task.op = "syncThread"
    THEN Finish(task, IF success THEN "true" ELSE "false")
    ELSE SweepNext([task EXCEPT
            !.queue = Tail(@),
            !.result.processedThreads = IF success THEN @ + 1 ELSE @,
            !.result.failedThreads = IF success THEN @ ELSE @ + 1])

\* an exception leaves processThread: neither syncThread nor syncForum catches
ProcessThrow(task) == Finish(task, "threw")

\* processThread, lines 140-145: the fragment type test, then the starter
\* message is awaited through retryDiscordApi
ProcessThreadEntry(task) ==
    IF getFragmentTypeForForum(task.forum) = "null" THEN ProcessReturn(task, FALSE)
    ELSE [task EXCEPT !.pc = "pt_starter", !.attempt = 0]

\* lines 143-173: one attempt at the starter message ended; attempt is the
\* wrapper's loop variable and is gone when the wrapper returns
ProcessAfterStarter(task, outcome) ==
    IF outcome = 0
    THEN [task EXCEPT !.pc = "pt_create", !.attempt = 0,
                      !.request = CreateRequest(threadName[task.thread], task.forum,
                                                StarterMessage(task.thread), TRUE),
                      !.creates = @ + 1]
    ELSE IF ShouldRetry(task.attempt, outcome)
    THEN [task EXCEPT !.attempt = @ + 1]
    ELSE ProcessReturn([task EXCEPT !.attempt = 0, !.logs = @ \cup
                           {RetriesErrorLog(outcome)}],
                       FALSE)

PtStarter(k) ==
    /\ tasks[k].pc = "pt_starter"
    /\ \E outcome \in AttemptOutcomes :
          tasks' = [tasks EXCEPT ![k] = ProcessAfterStarter(tasks[k], outcome)]
    /\ UNCHANGED <<units, marker, resolver, threadName, threadTags, messages, fragments>>

\* lines 175-186: createFragment returned; on a fragment the confirmation is
\* sent, on null processThread returns false
ProcessAfterCreate(task, fragmentId) ==
    IF fragmentId # Null
    THEN [task EXCEPT !.pc = "pt_send", !.fragment = fragmentId,
                      !.pending = RetroConfirmation(fragmentId, threadName[task.thread])]
    ELSE ProcessReturn([task EXCEPT !.fragment = Null,
                           !.logs = @ \cup {Log("error", "Failed to create Usable fragment")}],
                       FALSE)

PtCreate(k) ==
    /\ tasks[k].pc = "pt_create"
    /\ \/ /\ fragments' = Append(fragments,
                                 StoredFragment(tasks[k].request, tasks[k].thread))
          /\ tasks' = [tasks EXCEPT ![k] =
                 ProcessAfterCreate(tasks[k], FragmentIdOf(Len(fragments) + 1))]
       \/ /\ fragments' = fragments
          /\ tasks' = [tasks EXCEPT ![k] = ProcessAfterCreate(tasks[k], Null)]
    /\ UNCHANGED <<units, marker, resolver, threadName, threadTags, messages>>

\* lines 176-183: thread.send resolved (return true) or rejected (throw)
ProcessAfterSend(task, ok) ==
    IF ok THEN ProcessReturn([task EXCEPT !.posts = @ + 1], task.fragment # Null)
    ELSE ProcessThrow(task)

PtSend(k) ==
    /\ tasks[k].pc = "pt_send"
    /\ \/ /\ messages' = [messages EXCEPT ![tasks[k].thread] =
                             Posted(tasks[k].thread, BotUserId, tasks[k].pending)]
          /\ tasks' = [tasks EXCEPT ![k] = ProcessAfterSend(tasks[k], TRUE)]
       \/ /\ messages' = messages
          /\ tasks' = [tasks EXCEPT ![k] = ProcessAfterSend(tasks[k], FALSE)]
    /\ UNCHANGED <<units, marker, resolver, threadName, threadTags, fragments>>

\* the /sync-forum command calls syncThread(client, threadId, force):
\* client.channels.fetch(threadId) is awaited
StartSyncThread(k, t) ==
    /\ Free(k)
    /\ \E force \in BOOLEAN :
          tasks' = [tasks EXCEPT ![k] =
              [Begin(k, "syncThread", t, Parent[t])
                  EXCEPT !.pc = "st_fetch", !.force = force]]
    /\ UNCHANGED <<units, marker, resolver, threadName, threadTags, messages, fragments>>

\* the force flag ignored: the thread is resolved first in every case
SyncThreadAfterFetchResolving(task, ok) ==
    IF ~ok THEN Finish(task, "threw")
    ELSE [task EXCEPT !.pc = "st_resolve"]

\* syncThread, lines 114-122: the channel arrived (a forum thread), or the
\* fetch rejected
SyncThreadAfterFetch(task, ok) ==
    IF ~ok THEN Finish(task, "threw")
    ELSE IF ~task.force THEN [task EXCEPT !.pc = "st_resolve"]
    ELSE ProcessThreadEntry(task)

StFetch(k) ==
    /\ tasks[k].pc = "st_fetch"
    /\ \E ok \in BOOLEAN :
          tasks' = [tasks EXCEPT ![k] = SyncThreadAfterFetch(tasks[k], ok)]
    /\ UNCHANGED <<units, marker, resolver, threadName, threadTags, messages, fragments>>

\* syncThread, lines 118-122: isThreadProcessed returned
SyncThreadAfterResolve(task, fetched) ==
    LET logged == [task EXCEPT !.resolveFailed = ~fetched.ok,
                               !.logs = @ \cup isThreadProcessedLogs(fetched)]
    IN  IF isThreadProcessed(fetched) THEN Finish(logged, "true")
        ELSE ProcessThreadEntry(logged)

StResolve(k) ==
    /\ tasks[k].pc = "st_resolve"
    /\ \E fetched \in {FetchOk(messages[tasks[k].thread], ProcessedLookback), FetchFailed} :
          tasks' = [tasks EXCEPT ![k] = SyncThreadAfterResolve(tasks[k], fetched)]
    /\ UNCHANGED <<units, marker, resolver, threadName, threadTags, messages, fragments>>

\* syncForum, lines 61-76: the mapping test, then the channel is awaited
SyncForumEntry(k, f, dryRun) ==
    LET b == [Begin(k, "syncForum", "none", f) EXCEPT !.dryRun = dryRun]
    IN  IF getFragmentTypeForForum(f) = "null"
        THEN Finish([b EXCEPT !.logs = @ \cup {Log("warn", "Forum not configured")}],
                    "result")
        ELSE [b EXCEPT !.pc = "sf_fetch"]

\* the /sync-all-tracked command calls syncForum(client, forumId, options)
StartSyncForum(k, f) ==
    /\ Free(k)
    /\ \E dryRun \in BOOLEAN :
          tasks' = [tasks EXCEPT ![k] = SyncForumEntry(k, f, dryRun)]
    /\ UNCHANGED <<units, marker, resolver, threadName, threadTags, messages, fragments>>

\* syncForum, lines 76-91: channels.fetch, fetchActive and fetchArchived
\* answered (they read nothing another task writes, so they are one step),
\* or one of them rejected
SyncForumAfterFetch(task, ok) ==
    IF ~ok THEN Finish(task, "threw")
    ELSE SweepNext([task EXCEPT
            !.queue = ForumThreads(task.forum),
            !.result.scannedThreads = Len(ForumThreads(task.forum))])

SfFetch(k) ==
    /\ tasks[k].pc = "sf_fetch"
    /\ \E ok \in BOOLEAN :
          tasks' = [tasks EXCEPT ![k] = SyncForumAfterFetch(tasks[k], ok)]
    /\ UNCHANGED <<units, marker, resolver, threadName, threadTags, messages, fragments>>

\* syncForum, lines 92-103: isThreadProcessed returned for the current thread
SyncForumAfterResolve(task, fetched) ==
    LET logged == [task EXCEPT !.resolveFailed = ~fetched.ok,
                               !.logs = @ \cup isThreadProcessedLogs(fetched)]
    IN  IF isThreadProcessed(fetched)
        THEN SweepNext([logged EXCEPT !.queue = Tail(@),
                                      !.result.skippedThreads = @ + 1])
        ELSE IF task.dryRun
        THEN SweepNext([logged EXCEPT !.queue = Tail(@),
                                      !.result.unprocessedThreads = @ + 1])
        ELSE ProcessThreadEntry([logged EXCEPT !.result.unprocessedThreads = @ + 1])

SfResolve(k) ==
    /\ tasks[k].pc = "sf_resolve"
    /\ \E fetched \in {FetchOk(messages[tasks[k].thread], ProcessedLookback), FetchFailed} :
          tasks' = [tasks EXCEPT ![k] = SyncForumAfterResolve(tasks[k], fetched)]
    /\ UNCHANGED <<units, marker, resolver, threadName, threadTags, messages, fragments>>

-----------------------------------------------------------------------------
(* The specifications.                                                     *)

Next ==
    \E k \in Tasks :
        \/ \E t \in Threads :
              \/ StartThreadCreate(k, t)
              \/ StartThreadUpdate(k, t)
              \/ StartMessageCreate(k, t)
              \/ StartMessageCreateOwn(k, t)
              \/ StartSyncThread(k, t)
        \/ \E f \in Forums : StartSyncForum(k, f)
        \/ TcStarter(k) \/ TcCreate(k) \/ TcSend(k)
        \/ TuFind(k) \/ TuUpdate(k)
        \/ McFind(k)
        \/ StFetch(k) \/ StResolve(k)
        \/ SfFetch(k) \/ SfResolve(k)
        \/ PtStarter(k) \/ PtCreate(k) \/ PtSend(k)

Spec == Init /\ [][Next]_vars

\* the thread of the tracked forum as handleThreadCreate leaves it: the
\* starter message, then the bridge's confirmation of the first fragment
ProcessedMessages ==
    <<[author |-> "human", content |-> <<"7", "g">>, createdTimestamp |-> 1],
      [author |-> BotUserId, content |-> LiveConfirmation(FragmentIdOf(1), <<"g">>),
       createdTimestamp |-> 2]>>

\* SpecUpdate starts where the thread of the tracked forum is processed
UpdateInit ==
    /\ marker = MarkerIdle
    /\ resolver = ResolverIdle
    /\ threadName = [t \in Threads |-> <<"g">>]
    /\ threadTags = [t \in Threads |-> <<>>]
    /\ messages = [t \in Threads |->
                     IF isForumTracked(Parent[t]) THEN ProcessedMessages
                     ELSE <<ProcessedMessages[1]>>]
    /\ fragments = <<StoredFragment(CreateRequest(<<"g">>, "f1", ProcessedMessages[1],
                                                  FALSE), "t1")>>
    /\ tasks = [k \in Tasks |-> NoTask]
    /\ UnitsIdle

\* the thread-update handler and the reply handler with the update step
UpdateNext ==
    \E k \in Tasks :
        \/ \E t \in Threads :
              \/ StartThreadUpdate(k, t)
              \/ StartMessageCreateUpdating(k, t)
        \/ TuFind(k) \/ TuUpdate(k)
        \/ McuFind(k) \/ McBuild(k) \/ McUpdate(k)

SpecUpdate == UpdateInit /\ [][UpdateNext]_vars

\* the platform and the tasks, at rest, for the two specifications of pure
\* functions
OrchestratorIdle ==
    /\ threadName = [t \in Threads |-> <<"g">>]
    /\ threadTags = [t \in Threads |-> <<>>]
    /\ messages = [t \in Threads |-> <<>>]
    /\ fragments = <<>>
    /\ tasks = [k \in Tasks |-> NoTask]

MarkerInit ==
    /\ marker \in MarkerInputs
    /\ resolver = ResolverIdle
    /\ OrchestratorIdle
    /\ UnitsIdle

MarkerNext == Encode \/ Decode

SpecMarker == MarkerInit /\ [][MarkerNext]_vars

ResolverInit ==
    /\ marker = MarkerIdle
    /\ resolver \in ResolverInputs
    /\ OrchestratorIdle
    /\ UnitsIdle

ResolverNext == RunFindFragmentId \/ RunIsThreadProcessed

SpecResolver == ResolverInit /\ [][ResolverNext]_vars

-----------------------------------------------------------------------------
(* SpecDetect: detectChanges over two drawn snapshots.                     *)

\* appliedTags of a snapshot: any order, duplicates allowed
TagLists == SeqsUpTo({"x", "y"}, MaxTags)

\* the snapshot pairs the specification starts from
DetectorInputs ==
    [pc : {"detect"}, oldName : SpecNames, oldTags : TagLists,
     newName : SpecNames, newTags : TagLists,
     changes : {<<>>}, reversed : {<<>>}]

\* detectChanges(oldThread, newThread), and the same call with the two
\* snapshots exchanged
Detect ==
    /\ detector.pc = "detect"
    /\ detector' = [detector EXCEPT
                      !.pc = "done",
                      !.changes = detectChanges(detector.oldName, detector.oldTags,
                                                detector.newName, detector.newTags),
                      !.reversed = detectChanges(detector.newName, detector.newTags,
                                                 detector.oldName, detector.oldTags)]
    /\ UNCHANGED <<marker, resolver, threadName, threadTags, messages, fragments,
                   tasks, builder, retrier, aggregate, shell>>

DetectInit ==
    /\ marker = MarkerIdle
    /\ resolver = ResolverIdle
    /\ OrchestratorIdle
    /\ detector \in DetectorInputs
    /\ builder = Off /\ retrier = Off /\ aggregate = Off
    /\ ShellIdle

DetectNext == Detect

SpecDetect == DetectInit /\ [][DetectNext]_vars

-----------------------------------------------------------------------------
(* SpecBuilder: buildThreadConversation over one drawn page.               *)

\* the authors of the drawn messages: the bridge, a person, another bot
PageAuthors == {BotUserId, "human", "otherbot"}
\* the bodies of the drawn messages
PageBodies == {<<"a">>, <<"7", "g">>}

\* the pages messages.fetch can resolve with: up to MaxPage messages with
\* distinct creation times, in any order
Pages ==
    UNION { {page \in [1..n -> [author : PageAuthors, content : PageBodies,
                                createdTimestamp : 1..n]] :
                \A i, j \in 1..n : i # j =>
                    page[i].createdTimestamp # page[j].createdTimestamp} :
            n \in 0..MaxPage }

BuilderInputs == [pc : {"build"}, page : Pages, fetched : {FetchFailed}, doc : {Null}]

\* buildThreadConversation runs: its fetch resolves with the page, or rejects
Build ==
    /\ builder.pc = "build"
    /\ \E fetched \in {[ok |-> TRUE, page |-> builder.page], FetchFailed} :
          builder' = [builder EXCEPT !.pc = "done", !.fetched = fetched,
                                     !.doc = buildThreadConversation(fetched)]
    /\ UNCHANGED <<marker, resolver, threadName, threadTags, messages, fragments,
                   tasks, detector, retrier, aggregate, shell>>

BuilderInit ==
    /\ marker = MarkerIdle
    /\ resolver = ResolverIdle
    /\ OrchestratorIdle
    /\ builder \in BuilderInputs
    /\ detector = Off /\ retrier = Off /\ aggregate = Off
    /\ ShellIdle

BuilderNext == Build

SpecBuilder == BuilderInit /\ [][BuilderNext]_vars

-----------------------------------------------------------------------------
(* SpecAggregate: syncAllForums over drawn per-forum outcomes.             *)

\* the error lists a per-forum result can hold
ErrorLists ==
    {<<>>, <<[threadId |-> "t1", error |-> "e1"]>>,
     <<[threadId |-> "t2", error |-> "e2"], [threadId |-> "t1", error |-> "e1"]>>}

\* the SyncResults the type admits, small numbers
SyncResults ==
    [scannedThreads : 0..1, unprocessedThreads : 0..1, processedThreads : 0..1,
     failedThreads : 0..1, skippedThreads : 0..1, errors : ErrorLists]

\* what one call of syncForum can end with: a result, or an exception
ForumOutcomes ==
    [threw : {FALSE}, result : SyncResults] \cup {[threw |-> TRUE, result |-> ZeroResult]}

\* Object.keys(env.DISCORD_FORUM_MAPPINGS) of a deployment: no forum, one, two
MappedForumLists == {<<>>, <<"f1">>, <<"f1", "f3">>}

\* a slip: the error list of the forum replaces the list gathered so far
AddForumResultOverwriting(result, forumResult) ==
    [scannedThreads |-> result.scannedThreads + forumResult.scannedThreads,
     unprocessedThreads |-> result.unprocessedThreads + forumResult.unprocessedThreads,
     processedThreads |-> result.processedThreads + forumResult.processedThreads,
     failedThreads |-> result.failedThreads + forumResult.failedThreads,
     skippedThreads |-> result.skippedThreads + forumResult.skippedThreads,
     errors |-> forumResult.errors]

\* syncAllForums, lines 45-50: the five += and errors.push(...forumResult.errors)
AddForumResult(result, forumResult) ==
    [scannedThreads |-> result.scannedThreads + forumResult.scannedThreads,
     unprocessedThreads |-> result.unprocessedThreads + forumResult.unprocessedThreads,
     processedThreads |-> result.processedThreads + forumResult.processedThreads,
     failedThreads |-> result.failedThreads + forumResult.failedThreads,
     skippedThreads |-> result.skippedThreads + forumResult.skippedThreads,
     errors |-> result.errors \o forumResult.errors]

\* syncAllForums is entered: the result is zero, the loop is at the first forum
AggregateInputs ==
    UNION { [pc : {"loop"}, forums : {forums}, outcomes : [1..Len(forums) -> ForumOutcomes],
             i : {1}, result : {ZeroResult}, returned : {"none"}] :
            forums \in MappedForumLists }

\* syncAllForums, lines 43-53: the awaited syncForum of the i-th forum returned
\* or threw; after the last forum the result is returned
SyncAllForumsStep ==
    /\ aggregate.pc = "loop"
    /\ aggregate' =
          IF aggregate.i > Len(aggregate.forums)
          THEN [aggregate EXCEPT !.pc = "done", !.returned = "result"]
          ELSE IF aggregate.outcomes[aggregate.i].threw
          THEN [aggregate EXCEPT !.pc = "done", !.returned = "threw"]
          ELSE [aggregate EXCEPT
                   !.i = @ + 1,
                   !.result = AddForumResult(@, aggregate.outcomes[aggregate.i].result),
                   !.pc = IF aggregate.i = Len(aggregate.forums) THEN "done" ELSE "loop",
                   !.returned = IF aggregate.i = Len(aggregate.forums)
                                THEN "result" ELSE "none"]
    /\ UNCHANGED <<marker, resolver, threadName, threadTags, messages, fragments,
                   tasks, detector, builder, retrier, shell>>

AggregateInit ==
    /\ marker = MarkerIdle
    /\ resolver = ResolverIdle
    /\ OrchestratorIdle
    /\ aggregate \in AggregateInputs
    /\ detector = Off /\ builder = Off /\ retrier = Off
    /\ ShellIdle

AggregateNext == SyncAllForumsStep

SpecAggregate == AggregateInit /\ [][AggregateNext]_vars

-----------------------------------------------------------------------------
(* SpecRetry: one run of retryDiscordApi (utils/retry), a step per await.  *)

\* the default of the delays option
DefaultDelays == <<500, 1000, 2000>>

\* what one invocation of fn can end with: a value (0), an error with code
\* 10008, an error with another code, an error without a code (-1)
RetryOutcomes == AttemptOutcomes \cup {-1}

\* the options the specification draws; the defaults are among them
RetryOptions ==
    [maxRetries : 1..MaxRetriesOption, delays : {DefaultDelays, <<100>>, <<>>},
     onlyRetryUnknownMessage : BOOLEAN]

\* delays[attempt] || delays[delays.length - 1], as setTimeout takes it:
\* attempt counts from 0, a missing or zero delay falls back to the last one,
\* and undefined is no delay
RetryDelay(delays, attempt) ==
    IF attempt + 1 <= Len(delays) /\ delays[attempt + 1] # 0 THEN delays[attempt + 1]
    ELSE IF delays # <<>> THEN delays[Len(delays)]
    ELSE 0

\* a slip: every error retried, whatever onlyRetryUnknownMessage says
RetryAgainAnyError(options, attempt, errorCode) ==
    attempt # options.maxRetries - 1

\* a slip: the last attempt not told apart, so that it too is slept after
RetryAgainAfterLast(options, attempt, errorCode) ==
    IF options.onlyRetryUnknownMessage THEN errorCode = UnknownMessage ELSE TRUE

\* lines 64-75: shouldRetry && !isLastAttempt
RetryAgain(options, attempt, errorCode) ==
    /\ (IF options.onlyRetryUnknownMessage THEN errorCode = UnknownMessage ELSE TRUE)
    /\ attempt # options.maxRetries - 1

\* retryDiscordApi is entered: attempt = 0, fn not yet invoked.  history holds
\* the outcome of each invocation of fn, sleeps the delays waited.
RetryInputs ==
    [pc : {"call"}, options : RetryOptions, attempt : {0}, history : {<<>>},
     sleeps : {<<>>}, returned : {"none"}, logs : {{}}]

\* lines 50-96: the awaited fn() resolved or rejected
RetryAttempt ==
    /\ retrier.pc = "call"
    /\ \E outcome \in RetryOutcomes :
          retrier' =
             IF outcome = 0
             THEN [retrier EXCEPT
                      !.pc = "done", !.returned = "value",
                      !.history = Append(@, outcome),
                      !.logs = IF retrier.attempt > 0
                               THEN @ \cup {Log("info", "succeeded after retry")} ELSE @]
             ELSE IF RetryAgain(retrier.options, retrier.attempt, outcome)
             THEN [retrier EXCEPT
                      !.pc = "sleep",
                      !.history = Append(@, outcome),
                      !.sleeps = Append(@, RetryDelay(retrier.options.delays,
                                                      retrier.attempt)),
                      !.logs = @ \cup {Log("warn", "failed, retrying")}]
             ELSE [retrier EXCEPT
                      !.pc = "done", !.returned = "null",
                      !.history = Append(@, outcome),
                      !.logs = @ \cup {Log("error", "Discord API call failed after retries")}]
    /\ UNCHANGED <<marker, resolver, threadName, threadTags, messages, fragments,
                   tasks, detector, builder, aggregate, shell>>

\* lines 85-86: the timer fired; continue with the next attempt
RetrySleep ==
    /\ retrier.pc = "sleep"
    /\ retrier' = [retrier EXCEPT !.pc = "call", !.attempt = @ + 1]
    /\ UNCHANGED <<marker, resolver, threadName, threadTags, messages, fragments,
                   tasks, detector, builder, aggregate, shell>>

RetryInit ==
    /\ marker = MarkerIdle
    /\ resolver = ResolverIdle
    /\ OrchestratorIdle
    /\ retrier \in RetryInputs
    /\ detector = Off /\ builder = Off /\ aggregate = Off
    /\ ShellIdle

RetryNext == RetryAttempt \/ RetrySleep

SpecRetry == RetryInit /\ [][RetryNext]_vars

\* the wrapped call settles and the timer fires: each await of the wrapper
\* is resumed
SpecRetryFair == SpecRetry /\ WF_vars(RetryAttempt) /\ WF_vars(RetrySleep)

-----------------------------------------------------------------------------
(* SpecCommand: one slash-command interaction (interaction-create.handler) *)
(* from its arrival to the end of handleInteractionCreate.  The sync       *)
(* service it calls runs in slot 1 of tasks.                               *)

\* the command names the handler's switch knows, and one it does not
CommandNames == {"sync-forum", "sync-all-tracked", "list-tracked", "other"}

\* the texts the handler answers with
DenialText == "You need Manage Messages permission to use this command."
ErrorText == "An error occurred while processing your command."

\* the interactions that can arrive: whether it is a chat input command, its
\* name, whether the member has Manage Messages, the options thread_id, force,
\* forum_id and dry_run, and the thread the command was typed in, if any
CommandInputs ==
    [pc : {"received"}, chatInput : BOOLEAN, commandName : CommandNames,
     permitted : BOOLEAN, threadId : Threads \cup {"none"},
     channel : {"t1", "none"}, force : BOOLEAN,
     forumId : Forums \cup {"none"}, dryRun : BOOLEAN,
     replied : {FALSE}, deferred : {FALSE}, sent : {<<>>}, fetches : {0},
     threw : {FALSE}, logs : {{}}]

\* the handler is suspended at an await of this interaction response call
ReplyAwaits == {"deny_reply", "ask_reply", "unknown_reply", "list_reply",
                "edit_reply"}

\* the platform accepted a response: reply, editReply and followUp leave
\* interaction.replied set, deferReply leaves interaction.deferred set
Respond(i, via, content) ==
    [i EXCEPT !.sent = Append(@, [via |-> via, content |-> content,
                                  ephemeral |-> TRUE]),
              !.replied = IF via = "deferReply" THEN @ ELSE TRUE,
              !.deferred = IF via = "deferReply" THEN TRUE ELSE @]

\* lines 65-79: the catch block logs and awaits its own reply
CommandCatch(i) ==
    [i EXCEPT !.pc = "error_reply",
              !.logs = @ \cup {Log("error", "Error handling slash command")}]

\* the handler's promise settles: fulfilled, or rejected (threw)
CommandReturn(i, threw) == [i EXCEPT !.pc = "done", !.threw = threw]

\* handleSyncThread, lines 86-105: the thread is the option or the current
\* channel; with neither the member is asked for one
HandleSyncThreadEntry(i) ==
    IF i.threadId = "none" /\ i.channel = "none"
    THEN [i EXCEPT !.pc = "ask_reply"]
    ELSE [i EXCEPT !.pc = "defer",
                   !.threadId = IF @ = "none" THEN i.channel ELSE @]

\* handleListForums, lines 184-202: with forums mapped, the first forum's
\* channel is fetched
HandleListForumsEntry(i) ==
    IF DOMAIN DISCORD_FORUM_MAPPINGS = {}
    THEN [i EXCEPT !.pc = "list_reply"]
    ELSE [i EXCEPT !.pc = "list_fetch"]

\* the permission test left out
HandleInteractionCreateEntryOpen(i) ==
    IF ~i.chatInput THEN CommandReturn(i, FALSE)
    ELSE IF i.commandName = "sync-forum" THEN HandleSyncThreadEntry(i)
    ELSE IF i.commandName = "sync-all-tracked" THEN [i EXCEPT !.pc = "defer"]
    ELSE IF i.commandName = "list-tracked" THEN HandleListForumsEntry(i)
    ELSE [i EXCEPT !.pc = "unknown_reply"]

\* handleInteractionCreate, lines 24-64, up to its first await
HandleInteractionCreateEntry(i) ==
    IF ~i.chatInput THEN CommandReturn(i, FALSE)
    ELSE IF ~i.permitted THEN [i EXCEPT !.pc = "deny_reply"]
    ELSE IF i.commandName = "sync-forum" THEN HandleSyncThreadEntry(i)
    ELSE IF i.commandName = "sync-all-tracked" THEN [i EXCEPT !.pc = "defer"]
    ELSE IF i.commandName = "list-tracked" THEN HandleListForumsEntry(i)
    ELSE [i EXCEPT !.pc = "unknown_reply"]

CommandEntry ==
    /\ interaction.pc = "received"
    /\ interaction' = HandleInteractionCreateEntry(interaction)
    /\ UNCHANGED <<marker, resolver, threadName, threadTags, messages, fragments,
                   tasks, detector, builder, retrier, aggregate, process, health, scan>>

\* what the handler says at each of its replies
ReplyContent(i) ==
    CASE i.pc = "deny_reply" -> DenialText
      [] i.pc = "ask_reply" -> "Please provide a thread_id"
      [] i.pc = "unknown_reply" -> "Unknown command"
      [] i.pc = "list_reply" -> "Configured Forums"
      [] i.pc = "edit_reply" ->
            IF tasks[1].returned = "true" THEN "Sync complete"
            ELSE IF tasks[1].returned = "false" THEN "Failed to sync thread"
            ELSE "Results"

\* an awaited interaction.reply or editReply resolved, and the handler
\* returns, or rejected, and the catch block takes over
CommandReplied ==
    /\ interaction.pc \in ReplyAwaits
    /\ \E ok \in BOOLEAN :
          interaction' =
              IF ok
              THEN CommandReturn(
                       Respond(interaction,
                               IF interaction.pc = "edit_reply"
                               THEN "editReply" ELSE "reply",
                               ReplyContent(interaction)),
                       FALSE)
              ELSE CommandCatch(interaction)
    /\ UNCHANGED <<marker, resolver, threadName, threadTags, messages, fragments,
                   tasks, detector, builder, retrier, aggregate, process, health, scan>>

\* handleListForums, lines 199-217: channels.fetch resolved or rejected (its
\* own catch swallows the rejection); one forum is mapped, so the reply is next
CommandListFetch ==
    /\ interaction.pc = "list_fetch"
    /\ interaction' = [interaction EXCEPT !.pc = "list_reply", !.fetches = @ + 1]
    /\ UNCHANGED <<marker, resolver, threadName, threadTags, messages, fragments,
                   tasks, detector, builder, retrier, aggregate, process, health, scan>>

\* lines 105-113 and 136-149: deferReply resolved and the sync service is
\* called (syncAllForums, with the one mapped forum, is syncForum of it), or
\* deferReply rejected
CommandDeferred ==
    /\ interaction.pc = "defer"
    /\ tasks[1].pc = "idle"
    /\ \/ /\ interaction' = [Respond(interaction, "deferReply", "")
                                EXCEPT !.pc = "await_sync"]
          /\ tasks' = [tasks EXCEPT ![1] =
                IF interaction.commandName = "sync-forum"
                THEN [Begin(1, "syncThread", interaction.threadId,
                            Parent[interaction.threadId])
                         EXCEPT !.pc = "st_fetch", !.force = interaction.force]
                ELSE SyncForumEntry(1, IF interaction.forumId = "none" THEN "f1"
                                       ELSE interaction.forumId,
                                    interaction.dryRun)]
       \/ /\ interaction' = CommandCatch(interaction)
          /\ tasks' = tasks
    /\ UNCHANGED <<marker, resolver, threadName, threadTags, messages, fragments,
                   detector, builder, retrier, aggregate, process, health, scan>>

\* lines 113-123 and 147-177: the sync service returned and the deferred
\* reply is edited, or it threw and the catch block takes over
CommandResume ==
    /\ interaction.pc = "await_sync"
    /\ tasks[1].pc = "done"
    /\ interaction' = IF tasks[1].returned = "threw" THEN CommandCatch(interaction)
                      ELSE [interaction EXCEPT !.pc = "edit_reply"]
    /\ UNCHANGED <<marker, resolver, threadName, threadTags, messages, fragments,
                   tasks, detector, builder, retrier, aggregate, process, health, scan>>

\* lines 72-79: the catch block's followUp or reply resolved, or rejected:
\* nothing is around it, and the rejection leaves the handler
CommandErrorReplied ==
    /\ interaction.pc = "error_reply"
    /\ \E ok \in BOOLEAN :
          interaction' =
              IF ok
              THEN CommandReturn(
                       Respond(interaction,
                               IF interaction.replied \/ interaction.deferred
                               THEN "followUp" ELSE "reply",
                               ErrorText),
                       FALSE)
              ELSE CommandReturn(interaction, TRUE)
    /\ UNCHANGED <<marker, resolver, threadName, threadTags, messages, fragments,
                   tasks, detector, builder, retrier, aggregate, process, health, scan>>

CommandInit ==
    /\ marker = MarkerIdle
    /\ resolver = ResolverIdle
    /\ threadName = [t \in Threads |-> <<"g">>]
    /\ threadTags = [t \in Threads |-> <<>>]
    /\ messages = [t \in Threads |->
                     <<[author |-> "human", content |-> <<"7", "g">>,
                        createdTimestamp |-> 1]>>]
    /\ fragments = <<>>
    /\ tasks = [k \in Tasks |-> NoTask]
    /\ FunctionsIdle
    /\ interaction \in CommandInputs
    /\ process = Off
    /\ health = Off
    /\ scan = Off

CommandNext ==
    \/ CommandEntry
    \/ CommandReplied
    \/ CommandListFetch
    \/ CommandDeferred
    \/ CommandResume
    \/ CommandErrorReplied
    \/ StFetch(1) \/ StResolve(1)
    \/ SfFetch(1) \/ SfResolve(1)
    \/ PtStarter(1) \/ PtCreate(1) \/ PtSend(1)

SpecCommand == CommandInit /\ [][CommandNext]_vars

-----------------------------------------------------------------------------
(* SpecShutdown: the process from its start to its exit on a signal        *)
(* (index.ts), with thread-created handlers and single-thread syncs        *)
(* running in it.                                                          *)

\* the signals index.ts listens to
Signals == {"SIGTERM", "SIGINT"}

ProcessRunning == [pc |-> "running", signal |-> "none", healthStopped |-> FALSE,
                   clientDestroyed |-> FALSE]

\* handlers run, and events are delivered, while the process runs and the
\* client is not destroyed
Alive == process.pc = "running"

\* gracefulShutdown, lines 75-78, with DiscordBot.stop: the health server is
\* stopped and client.destroy() is called; bot.stop() awaits nothing, so its
\* promise is already resolved when gracefulShutdown awaits it
GracefulShutdown ==
    /\ process.pc = "running"
    /\ \E signal \in Signals :
          process' = [process EXCEPT !.pc = "stopping", !.signal = signal,
                                     !.healthStopped = TRUE,
                                     !.clientDestroyed = TRUE]
    /\ UNCHANGED <<marker, resolver, threadName, threadTags, messages, fragments,
                   tasks, detector, builder, retrier, aggregate, interaction,
                   health, scan>>

\* gracefulShutdown, line 79: the await of the resolved promise resumes in
\* the same turn of the event loop, before any answer from the network is
\* handled, and process.exit(0) ends every handler where it is suspended
ProcessExit ==
    /\ process.pc = "stopping"
    /\ process' = [process EXCEPT !.pc = "exited"]
    /\ UNCHANGED <<marker, resolver, threadName, threadTags, messages, fragments,
                   tasks, detector, builder, retrier, aggregate, interaction,
                   health, scan>>

ShutdownInit ==
    /\ marker = MarkerIdle
    /\ resolver = ResolverIdle
    /\ threadName = [t \in Threads |-> <<"g">>]
    /\ threadTags = [t \in Threads |-> <<>>]
    /\ messages = [t \in Threads |->
                     <<[author |-> "human", content |-> <<"7", "g">>,
                        createdTimestamp |-> 1]>>]
    /\ fragments = <<>>
    /\ tasks = [k \in Tasks |-> NoTask]
    /\ FunctionsIdle
    /\ interaction = Off
    /\ process = ProcessRunning
    /\ health = Off
    /\ scan = Off

ShutdownNext ==
    \/ GracefulShutdown
    \/ ProcessExit
    \/ \E k \in Tasks :
          \/ \E t \in Threads :
                \/ Alive /\ StartThreadCreate(k, t)
                \/ Alive /\ StartSyncThread(k, t)
          \/ Alive /\ TcStarter(k)
          \/ Alive /\ TcCreate(k)
          \/ Alive /\ TcSend(k)
          \/ Alive /\ StFetch(k)
          \/ Alive /\ StResolve(k)
          \/ Alive /\ PtStarter(k)
          \/ Alive /\ PtCreate(k)
          \/ Alive /\ PtSend(k)

SpecShutdown == ShutdownInit /\ [][ShutdownNext]_vars

-----------------------------------------------------------------------------
(* SpecLookback: a processed thread that people went on replying in, the   *)
(* sweep over its forum and the reply handler.                             *)

\* how many replies followed the confirmation before the specification
\* starts: none, and the numbers around the two resolvers' page sizes
Backlogs == {0, ProcessedLookback - 1, ProcessedLookback,
             FragmentLookback - 1, FragmentLookback}

\* the processed thread after n replies by a person
BacklogMessages(n) ==
    ProcessedMessages \o
    [i \in 1..n |-> [author |-> "human", content |-> <<"a">>,
                     createdTimestamp |-> i + 2]]

LookbackInit ==
    /\ marker = MarkerIdle
    /\ resolver = ResolverIdle
    /\ threadName = [t \in Threads |-> <<"g">>]
    /\ threadTags = [t \in Threads |-> <<>>]
    /\ \E n \in Backlogs :
          messages = [t \in Threads |->
                        IF isForumTracked(Parent[t]) THEN BacklogMessages(n)
                        ELSE <<ProcessedMessages[1]>>]
    /\ fragments = <<StoredFragment(CreateRequest(<<"g">>, "f1", ProcessedMessages[1],
                                                  FALSE), "t1")>>
    /\ tasks = [k \in Tasks |-> NoTask]
    /\ UnitsIdle

LookbackNext ==
    \E k \in Tasks :
        \/ StartSyncForum(k, "f1")
        \/ StartMessageCreate(k, "t1")
        \/ SfFetch(k) \/ SfResolve(k)
        \/ PtStarter(k) \/ PtCreate(k) \/ PtSend(k)
        \/ McFind(k)

SpecLookback == LookbackInit /\ [][LookbackNext]_vars

-----------------------------------------------------------------------------
(* SpecHealth: the health server (health.service.ts) answering requests    *)
(* while the Discord client connects and disconnects.                      *)

\* the paths requested: the two the server tests for, the two DEPLOYMENT.md
\* documents, and another
RequestPaths == {"/health", "/api/health", "/health/live", "/health/ready", "/"}

\* HealthService.start, lines 42-78: the fetch callback, given url.pathname
\* and what isReady() returns
HealthFetch(pathname, ready) ==
    IF pathname = "/health" \/ pathname = "/api/health"
    THEN [status |-> 200, body |-> "ok"]
    ELSE IF pathname = "/health" \/ pathname = "/api/health"
    THEN [status |-> IF ready THEN 200 ELSE 503,
          body |-> IF ready THEN "ready" ELSE "not_ready"]
    ELSE [status |-> 404, body |-> "Not Found"]

\* index.ts 64-72: the server is started with the client set and not yet
\* logged in
HealthStarted == [pc |-> "serving", ready |-> FALSE, answers |-> <<>>]

\* a request arrives and the fetch callback answers it
HealthRequest ==
    /\ health.pc = "serving"
    /\ Len(health.answers) < MaxRequests
    /\ \E pathname \in RequestPaths :
          LET response == HealthFetch(pathname, health.ready)
          IN  health' = [health EXCEPT !.answers =
                  Append(@, [path |-> pathname, ready |-> health.ready,
                             status |-> response.status, body |-> response.body])]
    /\ UNCHANGED <<marker, resolver, threadName, threadTags, messages, fragments,
                   tasks, detector, builder, retrier, aggregate, interaction,
                   process, scan>>

\* the client logged in and is ready (client.isReady() is true from now on)
ClientReady ==
    /\ health.pc = "serving"
    /\ ~health.ready
    /\ health' = [health EXCEPT !.ready = TRUE]
    /\ UNCHANGED <<marker, resolver, threadName, threadTags, messages, fragments,
                   tasks, detector, builder, retrier, aggregate, interaction,
                   process, scan>>

\* the client lost its connection or was destroyed
ClientNotReady ==
    /\ health.pc = "serving"
    /\ health.ready
    /\ health' = [health EXCEPT !.ready = FALSE]
    /\ UNCHANGED <<marker, resolver, threadName, threadTags, messages, fragments,
                   tasks, detector, builder, retrier, aggregate, interaction,
                   process, scan>>

HealthInit ==
    /\ marker = MarkerIdle
    /\ resolver = ResolverIdle
    /\ OrchestratorIdle
    /\ FunctionsIdle
    /\ interaction = Off
    /\ process = Off
    /\ health = HealthStarted
    /\ scan = Off

HealthNext == HealthRequest \/ ClientReady \/ ClientNotReady

SpecHealth == HealthInit /\ [][HealthNext]_vars

-----------------------------------------------------------------------------
(* SpecFilter: one run of syncForum (sync.service.ts 76-106) over drawn    *)
(* listings of active and archived threads, each thread's resolve and      *)
(* process drawn as an outcome.                                            *)

\* milliseconds in an hour: maxAgeHours * 60 * 60 * 1000
HourMs == 3600000
\* the default of the maxAgeHours option
DefaultMaxAgeHours == 24
\* Date.now() when the sweep computes its cutoff
Now == 3 * HourMs

\* thread.createdTimestamp as a list: empty when it is null, else the time
CreatedTimes == {<<>>, <<Now - 2 * HourMs>>, <<Now - HourMs>>,
                 <<Now - HourMs + 1>>, <<Now>>}

\* the listings fetchActive() or fetchArchived() can answer with
Listings(kind) ==
    UNION { { [i \in 1..n |-> [id |-> <<kind, i>>, createdTimestamp |-> c[i]]] :
              c \in [1..n -> CreatedTimes] } : n \in 0..MaxListed }

\* what processThread can end with for a thread: the confirmation posted,
\* no starter message, no fragment, or thread.send rejected
ProcessOutcomes == {"posted", "no_starter", "no_fragment", "send_rejected"}

ScanInputs ==
    [pc : {"fetch"}, maxAgeHours : {1, 2, DefaultMaxAgeHours}, dryRun : BOOLEAN,
     active : Listings("active"), archived : Listings("archived"),
     queue : {<<>>}, resolved : {<<>>}, createCalls : {<<>>}, posts : {<<>>},
     result : {ZeroResult}, returned : {"none"}]

\* the filter with the cutoff itself let through
IsRecentInclusive(createdTimestamp, cutoffTime) ==
    /\ createdTimestamp # <<>>
    /\ createdTimestamp[1] # 0
    /\ createdTimestamp[1] >= cutoffTime

\* lines 85-87: thread.createdTimestamp && thread.createdTimestamp > cutoffTime
IsRecent(createdTimestamp, cutoffTime) ==
    /\ createdTimestamp # <<>>
    /\ createdTimestamp[1] # 0
    /\ createdTimestamp[1] > cutoffTime

\* lines 82-87: allThreads, cutoffTime, recentThreads
RecentThreads(active, archived, maxAgeHours) ==
    LET allThreads == active \o archived
        cutoffTime == Now - maxAgeHours * 60 * 60 * 1000
    IN  SelectSeq(allThreads,
                  LAMBDA thread : IsRecent(thread.createdTimestamp, cutoffTime))

\* lines 76-89: the channel and the two listings arrived, or a fetch rejected
ScanFetch ==
    /\ scan.pc = "fetch"
    /\ \E ok \in BOOLEAN :
          scan' =
              IF ~ok THEN [scan EXCEPT !.pc = "done", !.returned = "threw"]
              ELSE LET recentThreads == RecentThreads(scan.active, scan.archived,
                                                      scan.maxAgeHours)
                   IN  [scan EXCEPT
                          !.queue = recentThreads,
                          !.result.scannedThreads = Len(recentThreads),
                          !.pc = IF recentThreads = <<>> THEN "done" ELSE "loop",
                          !.returned = IF recentThreads = <<>> THEN "result"
                                       ELSE "none"]
    /\ UNCHANGED <<marker, resolver, threadName, threadTags, messages, fragments,
                   tasks, detector, builder, retrier, aggregate, interaction,
                   process, health>>

\* the loop goes on with the rest of recentThreads, or the result is returned
ScanNext(s) ==
    [s EXCEPT !.queue = Tail(@),
              !.pc = IF Tail(s.queue) = <<>> THEN "done" ELSE "loop",
              !.returned = IF Tail(s.queue) = <<>> THEN "result" ELSE "none"]

\* lines 91-104: one turn of the loop: isThreadProcessed answers for the
\* thread, and processThread runs unless it is processed or this is a dry run
ScanThread ==
    /\ scan.pc = "loop"
    /\ \E isProcessed \in BOOLEAN, outcome \in ProcessOutcomes :
          LET id == Head(scan.queue).id
              seen == [scan EXCEPT !.resolved = Append(@, id)]
              called == [seen EXCEPT !.result.unprocessedThreads = @ + 1,
                                     !.createCalls = Append(@, id)]
          IN  scan' =
                IF isProcessed
                THEN ScanNext([seen EXCEPT !.result.skippedThreads = @ + 1])
                ELSE IF scan.dryRun
                THEN ScanNext([seen EXCEPT !.result.unprocessedThreads = @ + 1])
                ELSE CASE outcome = "posted" ->
                            ScanNext([called EXCEPT
                                        !.posts = Append(@, id),
                                        !.result.processedThreads = @ + 1])
                       [] outcome = "no_fragment" ->
                            ScanNext([called EXCEPT !.result.failedThreads = @ + 1])
                       [] outcome = "no_starter" ->
                            ScanNext([seen EXCEPT
                                        !.result.unprocessedThreads = @ + 1,
                                        !.result.failedThreads = @ + 1])
                       [] outcome = "send_rejected" ->
                            [called EXCEPT !.pc = "done", !.returned = "threw"]
    /\ UNCHANGED <<marker, resolver, threadName, threadTags, messages, fragments,
                   tasks, detector, builder, retrier, aggregate, interaction,
                   process, health>>

FilterInit ==
    /\ marker = MarkerIdle
    /\ resolver = ResolverIdle
    /\ OrchestratorIdle
    /\ FunctionsIdle
    /\ interaction = Off
    /\ process = Off
    /\ health = Off
    /\ scan \in ScanInputs

FilterNext == ScanFetch \/ ScanThread

SpecFilter == FilterInit /\ [][FilterNext]_vars

-----------------------------------------------------------------------------
(* Properties of the marker text, under SpecMarker.                        *)

\* the identifier is one the pattern's class accepts: one character or more,
\* hex digits (either case, under the i flag) and hyphens only
IsHexHyphenId(id) == id # <<>> /\ ToSet(id) \subseteq IdChars

\* C5: marker round trip.  For every identifier made only of hex digits and
\* hyphens, whatever the thread's name, reading the fragment id back from the
\* live confirmation or from the retroactive-sync confirmation built for that
\* identifier gives exactly that identifier.
C5_MarkerRoundTrip ==
    (marker.pc = "done" /\ IsHexHyphenId(marker.id)) => marker.decoded = marker.id

\* a retroactive-sync confirmation for an identifier with a hyphen and an
\* upper-case digit, in a thread whose name looks like a marker, was decoded
C5_Witness ==
    /\ marker.pc = "done"
    /\ marker.retro
    /\ marker.id = <<"E", "-", "7">>
    /\ marker.name = <<LABEL, " ", BT, "a", BT>>
    /\ marker.decoded = marker.id

-----------------------------------------------------------------------------
(* Properties of the resolvers, under SpecResolver.  The drawn history is  *)
(* shorter than either lookback, so both pages hold all of it.             *)

\* the positions of the bridge's messages that contain the marker label
BridgeLabelled(history) ==
    {i \in 1..Len(history) : /\ history[i].author = BotUserId
                             /\ Includes(history[i].content, LABEL)}

\* those of them a fragment id can be read from
BridgeMarkers(history) ==
    {i \in BridgeLabelled(history) : MatchFragmentId(history[i].content) # Null}

\* the fragment ids the bridge's markers of this history carry
MarkerIds(history) ==
    {MatchFragmentId(history[i].content) : i \in BridgeMarkers(history)}

\* the most recently created of the messages at these positions
MostRecent(positions) == CHOOSE i \in positions : \A j \in positions : j <= i

\* the positions of the bridge's messages that contain the label or the
\* confirmation line, the two texts the processed check looks for
BridgeConfirmations(history) ==
    {i \in 1..Len(history) : /\ history[i].author = BotUserId
                             /\ \/ Includes(history[i].content, LABEL)
                                \/ Includes(history[i].content, HDR)}

\* C6: resolver correctness.  For any fetched history: if some message of the
\* bridge carries a marker, the thread is reported processed and the fragment
\* id returned is one read from a marker of the bridge (whatever else the
\* bridge posted, before or after); if the bridge posted nothing, or nothing
\* with the marker label or the confirmation line, the thread is reported not
\* processed and no fragment id is returned; other authors' messages never
\* count.
C6_ResolverCorrect ==
    (resolver.pc = "done" /\ resolver.findFetch.ok /\ resolver.procFetch.ok) =>
        /\ BridgeMarkers(resolver.history) # {} =>
              /\ resolver.processed
              /\ resolver.fragmentId \in MarkerIds(resolver.history)
        /\ BridgeConfirmations(resolver.history) = {} =>
              /\ ~resolver.processed
              /\ resolver.fragmentId = Null

\* C7: when several messages of the bridge carry the marker label, the
\* fragment id returned is the one read from the most recently created of
\* them that decodes: a labelled message that does not decode hides no older
\* marker.
C7_MostRecentMarker ==
    (/\ resolver.pc \in {"processed", "done"}
     /\ resolver.findFetch.ok
     /\ Cardinality(BridgeLabelled(resolver.history)) >= 2
     /\ BridgeMarkers(resolver.history) # {}) =>
        resolver.fragmentId =
            MatchFragmentId(
                resolver.history[MostRecent(BridgeMarkers(resolver.history))].content)

\* C8: when the bridge's markers of one thread carry more than one fragment
\* id, the resolver logs a warning and returns the id of the most recent
\* marker.
C8_WarnsOnDistinctIds ==
    (/\ resolver.pc \in {"processed", "done"}
     /\ resolver.findFetch.ok
     /\ Cardinality(MarkerIds(resolver.history)) > 1) =>
        /\ \E entry \in resolver.logs : entry.level = "warn"
        /\ resolver.fragmentId =
              MatchFragmentId(
                  resolver.history[MostRecent(BridgeMarkers(resolver.history))].content)

-----------------------------------------------------------------------------
(* Properties of the handlers and of the sync service, under Spec.         *)

\* the threads an operation works on
ThreadsOf(task) ==
    IF task.op = "syncForum" THEN ToSet(ForumThreads(task.forum)) ELSE {task.thread}

\* the confirmations (messages with a marker) the operation has posted
MarkerPosts(task) == IF task.fragment # Null THEN task.posts ELSE 0

\* the positions in thread t of the bridge's messages that carry this id
CarriersOf(t, fragmentId) ==
    {i \in 1..Len(messages[t]) :
        /\ messages[t][i].author = BotUserId
        /\ MatchFragmentId(messages[t][i].content) = fragmentId}

\* createFragment returned null in this operation
CreateFailed(task) == Log("error", "Failed to create Usable fragment") \in task.logs

\* the platform rejected the live handler's thread.send
SendRejected(task) == Log("error", "Error handling thread creation") \in task.logs

\* C1: idempotent skip.  A thread-created event, a sweep or a non-forced
\* single-thread sync that begins when its tracked thread already holds a
\* confirmation of the bridge within the lookback never calls the external
\* create.
C1_IdempotentSkip ==
    \A k \in Tasks :
        (/\ \/ tasks[k].op \in {"threadCreate", "syncForum"}
            \/ tasks[k].op = "syncThread" /\ ~tasks[k].force
         /\ isForumTracked(tasks[k].forum)
         /\ ThreadsOf(tasks[k]) \subseteq tasks[k].processedAtStart)
        => tasks[k].creates = 0

\* C2: a sweep and the live thread-created handler that overlap on one
\* tracked thread, unprocessed when each began, make at most one external
\* create between them and post at most one confirmation, however their calls
\* interleave.
C2_SweepAndLiveConsistent ==
    \A live \in Tasks, sweep \in Tasks :
        (/\ tasks[live].op = "threadCreate"
         /\ tasks[sweep].op = "syncForum"
         /\ isForumTracked(tasks[sweep].forum)
         /\ tasks[live].thread \in ThreadsOf(tasks[sweep])
         /\ live \in tasks[sweep].overlap \/ sweep \in tasks[live].overlap
         /\ tasks[live].thread \notin tasks[live].processedAtStart
         /\ tasks[live].thread \notin tasks[sweep].processedAtStart)
        => /\ tasks[live].creates + tasks[sweep].creates <= 1
           /\ MarkerPosts(tasks[live]) + MarkerPosts(tasks[sweep]) <= 1

\* C3, the call: the step on which the live handler calls createFragment
\* (its first and only call) gives the thread's name as it is then for the
\* title and the forum's mapped type for the fragment type.
C3_CreateCall ==
    \A k \in Tasks :
        (tasks[k].pc = "tc_starter" /\ tasks'[k].pc = "tc_create") =>
            /\ tasks'[k].creates = 1
            /\ tasks'[k].request.kind = "create"
            /\ tasks'[k].request.title = threadName[tasks[k].thread]
            /\ tasks'[k].request.fragmentTypeId =
                  DISCORD_FORUM_MAPPINGS[Parent[tasks[k].thread]]

\* C3, the outcome: a run of the live handler whose create succeeded, and
\* whose post the platform did not reject, has called create once and posted
\* one message, and the thread holds exactly one message of the bridge that
\* carries the returned fragment id.
C3_Confirmed ==
    \A k \in Tasks :
        (/\ tasks[k].op = "threadCreate"
         /\ tasks[k].pc = "done"
         /\ tasks[k].fragment # Null
         /\ ~SendRejected(tasks[k]))
        => /\ tasks[k].creates = 1
           /\ tasks[k].posts = 1
           /\ Cardinality(CarriersOf(tasks[k].thread, tasks[k].fragment)) = 1
           /\ fragments[FragmentIndex(tasks[k].fragment)].thread = tasks[k].thread

ReportedFailed(task) ==
    CASE task.op = "threadCreate" -> CreateFailed(task)
      [] task.op = "syncThread" -> task.returned = "false"
      [] task.op = "syncForum" -> task.result.failedThreads >= 1
      [] OTHER -> FALSE

\* C4: whenever the external create fails in a finished run of the live
\* handler, of a single-thread sync or of a sweep (and the platform rejected
\* no post), the thread holds a message of the bridge that is the failure
\* notice and carries no marker, and the run reported the failure.
C4_FailureNoticePosted ==
    \A k \in Tasks :
        (/\ tasks[k].pc = "done"
         /\ CreateFailed(tasks[k])
         /\ ~SendRejected(tasks[k]))
        => /\ \E i \in 1..Len(messages[tasks[k].thread]) :
                 /\ messages[tasks[k].thread][i].author = BotUserId
                 /\ messages[tasks[k].thread][i].content = FailureNotice
                 /\ ~Includes(messages[tasks[k].thread][i].content, LABEL)
           /\ ReportedFailed(tasks[k])

\* C9: an operation in which a resolver's message fetch failed has logged the
\* failure, has called neither create nor update, did not throw, and, when it
\* is a sweep, counted the thread neither as processed nor as failed.
C9_FetchFailureIsLoggedSkip ==
    \A k \in Tasks :
        tasks[k].resolveFailed =>
            /\ \E entry \in tasks[k].logs : entry.level \in {"error", "warn"}
            /\ tasks[k].creates = 0
            /\ tasks[k].updates = 0
            /\ tasks[k].returned # "threw"
            /\ tasks[k].result.processedThreads = 0
            /\ tasks[k].result.failedThreads = 0

\* C10: forums absent from the mapping are never processed.  No operation on
\* a thread of an unmapped forum (thread created, thread updated, message
\* created, single-thread sync forced or not, sweep of the forum) calls create
\* or update or posts; the thread holds no message of the bridge and no
\* fragment was stored for it.
C10_UntrackedNeverProcessed ==
    /\ \A k \in Tasks :
          (tasks[k].op # "none" /\ ~isForumTracked(tasks[k].forum)) =>
              /\ tasks[k].creates = 0
              /\ tasks[k].updates = 0
              /\ tasks[k].posts = 0
    /\ \A t \in Threads :
          ~isForumTracked(Parent[t]) =>
              /\ \A i \in 1..Len(messages[t]) : messages[t][i].author # BotUserId
              /\ \A i \in 1..Len(fragments) : fragments[i].thread # t

\* a forced single-thread sync and a thread-created event, both on a thread
\* of the unmapped forum, have finished
C10_Witness ==
    \E k \in Tasks, j \in Tasks :
        /\ tasks[k].op = "syncThread" /\ tasks[k].force
        /\ tasks[k].pc = "done" /\ tasks[k].returned = "false"
        /\ ~isForumTracked(tasks[k].forum)
        /\ tasks[j].op = "threadCreate" /\ tasks[j].pc = "done"
        /\ tasks[j].thread = tasks[k].thread

-----------------------------------------------------------------------------
(* Properties of the change detector, under SpecDetect.                    *)

\* C11: detectChanges contains 'title' exactly when the two names differ and
\* 'tags' exactly when the two tag collections differ as sets; it is empty
\* when name and tag set are equal, whatever the order of the tags and
\* whatever their duplicates; and exchanging before and after gives the same
\* answer about the tags.
C11_DetectChanges ==
    detector.pc = "done" =>
        /\ ("title" \in ToSet(detector.changes)) <=> (detector.oldName # detector.newName)
        /\ ("tags" \in ToSet(detector.changes))
              <=> (ToSet(detector.oldTags) # ToSet(detector.newTags))
        /\ (/\ detector.oldName = detector.newName
            /\ ToSet(detector.oldTags) = ToSet(detector.newTags))
              => detector.changes = <<>>
        /\ ("tags" \in ToSet(detector.changes)) <=> ("tags" \in ToSet(detector.reversed))

\* two snapshots with the same name and the same tags, in another order and
\* with a duplicate, were compared and no change was reported
C11_Witness ==
    /\ detector.pc = "done"
    /\ detector.oldName = detector.newName
    /\ detector.oldTags = <<"x", "y">>
    /\ detector.newTags = <<"y", "x", "y">>
    /\ detector.changes = <<>>

-----------------------------------------------------------------------------
(* Properties of handleThreadUpdate, under Spec.                           *)

\* C12: a thread-updated event whose before and after snapshots have the same
\* name and the same tag set results in a skip: the handler makes no external
\* update call and posts no message, whatever else changed on the thread.
C12_UnchangedSnapshotsSkip ==
    \A k \in Tasks :
        (tasks[k].op = "threadUpdate" /\ tasks[k].eventChanges = <<>>) =>
            /\ tasks[k].updates = 0
            /\ tasks[k].posts = 0

\* C13: the update request sent for a thread-updated event carries the
\* fragment id the lookup returned and only the fields the event changed: a
\* title if and only if the event changed the name, tags if and only if the
\* event changed the tag set, and never a content field.  (Stated for the
\* events that changed the name or the tag set; C12 is about the others.)
C13_OnlyChangedFields ==
    \A k \in Tasks :
        (/\ tasks[k].op = "threadUpdate"
         /\ tasks[k].request.kind = "update"
         /\ tasks[k].eventChanges # <<>>) =>
            /\ tasks[k].request.fragmentId = tasks[k].fragmentId
            /\ tasks[k].fragmentId # Null
            /\ ("title" \in tasks[k].request.fields)
                  <=> ("title" \in ToSet(tasks[k].eventChanges))
            /\ ("tags" \in tasks[k].request.fields)
                  <=> ("tags" \in ToSet(tasks[k].eventChanges))
            /\ "content" \notin tasks[k].request.fields

-----------------------------------------------------------------------------
(* Properties of handleMessageCreate, under Spec.                          *)

\* C14: a message of a person in a tracked thread that is already processed
\* (the lookup returned the thread's fragment id) triggers a reply-driven
\* update: when the handler has finished it has called the external update
\* once, with that fragment id and a content field, and has posted nothing.
C14_ReplyTriggersUpdate ==
    \A k \in Tasks :
        (/\ tasks[k].op = "messageCreate"
         /\ tasks[k].pc = "done"
         /\ tasks[k].fragmentId # Null) =>
            /\ tasks[k].updates = 1
            /\ tasks[k].request.kind = "update"
            /\ tasks[k].request.fragmentId = tasks[k].fragmentId
            /\ "content" \in tasks[k].request.fields
            /\ tasks[k].posts = 0

-----------------------------------------------------------------------------
(* Properties of the conversation builder, under SpecBuilder.              *)

\* the positions of the document where a block begins
BlockHeads(doc) == {i \in 1..Len(doc) : doc[i] = "### "}

\* the block that begins at position i of the document is the block of
\* message msg: its author, its creation time, a blank line, its body
IsBlockOf(doc, i, msg) ==
    /\ i + 5 + Len(msg.content) <= Len(doc)
    /\ doc[i + 1] = msg.author
    /\ doc[i + 3] = ToString(msg.createdTimestamp)
    /\ SubSeq(doc, i + 6, i + 5 + Len(msg.content)) = msg.content

\* the messages of the page that satisfy the predicate given as a set of
\* excluded authors
Qualifying(page, excluded) ==
    {j \in 1..Len(page) : page[j].author \notin excluded}

\* the document holds exactly one block for each message of the page whose
\* author is not excluded, in ascending order of creation time, and none for
\* any other message; there is no document when no message qualifies
DocumentOf(doc, page, excluded) ==
    IF Qualifying(page, excluded) = {} THEN doc = Null
    ELSE /\ doc # Null
         /\ doc # <<>>
         /\ Cardinality(BlockHeads(doc)) = Cardinality(Qualifying(page, excluded))
         /\ \A j \in Qualifying(page, excluded) :
               \E i \in BlockHeads(doc) : IsBlockOf(doc, i, page[j])
         /\ \A j \in 1..Len(page) : j \notin Qualifying(page, excluded) =>
               ~\E i \in BlockHeads(doc) : IsBlockOf(doc, i, page[j])
         /\ \A i1, i2 \in BlockHeads(doc), j1, j2 \in 1..Len(page) :
               (/\ i1 < i2
                /\ IsBlockOf(doc, i1, page[j1])
                /\ IsBlockOf(doc, i2, page[j2]))
               => page[j1].createdTimestamp < page[j2].createdTimestamp

\* C15 as amended: the conversation document built from a fetched page holds
\* exactly one attributable block per fetched message whose author is not a
\* bot (the bridge or any other bot), the blocks are in ascending order of
\* creation time whatever the order of the page, no message of a bot appears
\* in it, and the result is none, never an empty document, when no message
\* qualifies.
C15_ConversationOfPeople ==
    (builder.pc = "done" /\ builder.fetched.ok) =>
        DocumentOf(builder.doc, builder.page, {BotUserId, "otherbot"})

\* a page fetched newest first, with a message of the bridge between two
\* messages of people, gave a document of two blocks
C15_Witness ==
    /\ builder.pc = "done"
    /\ builder.fetched.ok
    /\ Len(builder.page) = 3
    /\ builder.page[1].author = "human" /\ builder.page[1].createdTimestamp = 3
    /\ builder.page[2].author = BotUserId /\ builder.page[2].createdTimestamp = 2
    /\ builder.page[3].author = "human" /\ builder.page[3].createdTimestamp = 1
    /\ Cardinality(BlockHeads(builder.doc)) = 2

\* C15 as the claim has it: one block per fetched message that is not
\* authored by the bridge.
C15_ConversationOfNonBridge ==
    (builder.pc = "done" /\ builder.fetched.ok) =>
        DocumentOf(builder.doc, builder.page, {BotUserId})

-----------------------------------------------------------------------------
(* Properties of the sweep, under Spec.                                    *)

\* C16: a sweep that has begun processing a thread does not end by an
\* exception of that processing.  When the sweep is over it has returned its
\* SyncResult, every thread of the forum has been visited, and each thread
\* whose processing failed has an entry in the result's error list.
C16_SweepSurvivesThreadFailure ==
    \A k \in Tasks :
        (/\ tasks[k].op = "syncForum"
         /\ tasks[k].pc = "done"
         /\ tasks[k].result.unprocessedThreads >= 1) =>
            /\ tasks[k].returned = "result"
            /\ tasks[k].queue = <<>>
            /\ Len(tasks[k].result.errors) = tasks[k].result.failedThreads

-----------------------------------------------------------------------------
(* Properties of syncAllForums, under SpecAggregate.                       *)

RECURSIVE SumOver(_, _, _)
\* the sum of one field over the results of the first n forums
SumOver(outcomes, n, field) ==
    IF n = 0 THEN 0 ELSE SumOver(outcomes, n - 1, field) + outcomes[n].result[field]

RECURSIVE ErrorsUpTo(_, _)
\* how many entries the error lists of the first n forums hold together
ErrorsUpTo(outcomes, n) ==
    IF n = 0 THEN 0 ELSE ErrorsUpTo(outcomes, n - 1) + Len(outcomes[n].result.errors)

\* the entries of the per-forum error lists: the forum and the place in its list
ErrorPlaces(outcomes) ==
    UNION { {<<f, j>> : j \in 1..Len(outcomes[f].result.errors)} :
            f \in 1..Len(outcomes) }

\* C17: the result of sweeping all tracked forums is the field-wise sum of
\* the per-forum results, and its error list is exactly the per-forum error
\* lists one after the other: as many entries as the lists hold together,
\* each list's entries in place and in order, after those of the forums
\* before it.
C17_AggregateIsSum ==
    (aggregate.pc = "done" /\ aggregate.returned = "result") =>
        LET out == aggregate.outcomes
        IN  /\ \A field \in {"scannedThreads", "unprocessedThreads", "processedThreads",
                               "failedThreads", "skippedThreads"} :
                  aggregate.result[field] = SumOver(out, Len(out), field)
            /\ Len(aggregate.result.errors) = ErrorsUpTo(out, Len(out))
            /\ \A p \in ErrorPlaces(out) :
                  aggregate.result.errors[ErrorsUpTo(out, p[1] - 1) + p[2]]
                      = out[p[1]].result.errors[p[2]]

\* two forums were swept, each with errors, and the total holds the three
\* entries
C17_Witness ==
    /\ aggregate.pc = "done"
    /\ aggregate.returned = "result"
    /\ Len(aggregate.forums) = 2
    /\ Len(aggregate.outcomes[1].result.errors) = 2
    /\ Len(aggregate.outcomes[2].result.errors) = 1
    /\ aggregate.result.scannedThreads = 2
    /\ Len(aggregate.result.errors) = 3

-----------------------------------------------------------------------------
(* Properties of the sweep, under Spec (continued).                        *)

\* no other operation ran while operation k did
RanAlone(k) ==
    /\ tasks[k].overlap = {}
    /\ \A j \in Tasks : k \notin tasks[j].overlap

\* C18: a sweep of a tracked forum run with dryRun = true, alone, that has
\* returned its result has made no external create call and posted no
\* message; the result reports as unprocessedThreads the number of threads of
\* the forum that were unprocessed, and reports no processed and no failed
\* thread.
C18_DryRunCountsUnprocessed ==
    \A k \in Tasks :
        (/\ tasks[k].op = "syncForum"
         /\ tasks[k].dryRun
         /\ isForumTracked(tasks[k].forum)
         /\ tasks[k].pc = "done"
         /\ tasks[k].returned = "result"
         /\ RanAlone(k)) =>
            /\ tasks[k].creates = 0
            /\ tasks[k].posts = 0
            /\ tasks[k].result.processedThreads = 0
            /\ tasks[k].result.failedThreads = 0
            /\ tasks[k].result.unprocessedThreads =
                  Cardinality(ThreadsOf(tasks[k]) \ tasks[k].processedAtStart)

-----------------------------------------------------------------------------
(* Properties of the retry wrapper, under SpecRetry.                       *)

\* the wrapper was called without options
DefaultOptions ==
    /\ retrier.options.maxRetries = MaxRetries
    /\ retrier.options.delays = DefaultDelays
    /\ retrier.options.onlyRetryUnknownMessage

\* C19: with the default options the wrapper invokes the wrapped call at
\* most three times in all; every invocation after the first follows a
\* failure with code 10008; and a failure of any other class (another code,
\* or no code) is the last invocation: the wrapper has given up and returned
\* null.
C19_RetriesOnlyUnknownMessage ==
    DefaultOptions =>
        /\ Len(retrier.history) <= 3
        /\ \A i \in 2..Len(retrier.history) : retrier.history[i - 1] = UnknownMessage
        /\ \A i \in 1..Len(retrier.history) :
              retrier.history[i] \notin {0, UnknownMessage} =>
                  /\ i = Len(retrier.history)
                  /\ retrier.pc = "done"
                  /\ retrier.returned = "null"

\* with the default options, a call that failed twice with code 10008 and
\* then with another code was invoked three times and given up
C19_Witness ==
    /\ DefaultOptions
    /\ retrier.pc = "done"
    /\ retrier.history = <<UnknownMessage, UnknownMessage, 50001>>
    /\ retrier.sleeps = <<500, 1000>>
    /\ retrier.returned = "null"

-----------------------------------------------------------------------------
(* Properties of the starter message fetch, under Spec.                    *)

\* the operation gave up fetching its starter message on an Unknown Message
\* error (code 10008)
GaveUpOnUnknownMessage(task) ==
    \/ StarterErrorLog(UnknownMessage) \in task.logs
    \/ RetriesErrorLog(UnknownMessage) \in task.logs

\* C20: in every create path (the live thread-created handler, the sweep, the
\* single-thread sync), the step on which an operation gives up fetching the
\* starter message because of an Unknown Message error is taken only after
\* the fetch has been retried.
C20_UnknownMessageRetried ==
    [][\A k \in Tasks :
          (~GaveUpOnUnknownMessage(tasks[k]) /\ GaveUpOnUnknownMessage(tasks'[k]))
              => tasks[k].attempt >= 1]_vars

-----------------------------------------------------------------------------
(* Properties of the external calls, under Spec.                           *)

\* updateFragment returned false in this operation
UpdateFailed(task) == Log("error", "Failed to update") \in task.logs

\* the threads the operation has visited for processing: the thread of an
\* event or of a single-thread sync, the unprocessed threads of a sweep
Visits(task) ==
    IF task.op = "syncForum" THEN task.result.unprocessedThreads ELSE 1

\* C21: external API calls are fire-once.  Within one handling of one event,
\* one single-thread sync or one visit of one thread by a sweep the external
\* create is called at most once and the external update at most once; an
\* operation whose call failed has still made that one call only.
C21_FireOnce ==
    \A k \in Tasks :
        /\ tasks[k].creates <= Visits(tasks[k])
        /\ tasks[k].creates <= 1
        /\ tasks[k].updates <= 1
        /\ CreateFailed(tasks[k]) => tasks[k].creates = 1
        /\ UpdateFailed(tasks[k]) => tasks[k].updates = 1

\* an operation that created the thread's fragment and a thread-updated event
\* whose update failed have both finished, each after one call
C21_Witness ==
    \E k \in Tasks, j \in Tasks :
        /\ tasks[k].op \in {"threadCreate", "syncForum"}
        /\ tasks[k].pc = "done" /\ tasks[k].creates = 1
        /\ tasks[j].op = "threadUpdate"
        /\ tasks[j].pc = "done" /\ UpdateFailed(tasks[j]) /\ tasks[j].updates = 1

-----------------------------------------------------------------------------
(* Properties of the replies to people, under Spec.                        *)

\* C22: every thread-created event in a tracked forum results in a message
\* of the bridge in the thread, the confirmation or the failure notice, also
\* when the starter message cannot be fetched: a run of the live handler that
\* has finished, and whose post the platform did not reject, has posted one.
C22_EveryThreadCreateAnswered ==
    \A k \in Tasks :
        (/\ tasks[k].op = "threadCreate"
         /\ isForumTracked(tasks[k].forum)
         /\ tasks[k].pc = "done"
         /\ ~SendRejected(tasks[k]))
        => /\ tasks[k].posts = 1
           /\ \E i \in 1..Len(messages[tasks[k].thread]) :
                 /\ messages[tasks[k].thread][i].author = BotUserId
                 /\ \/ messages[tasks[k].thread][i].content = FailureNotice
                    \/ MatchFragmentId(messages[tasks[k].thread][i].content) # Null

-----------------------------------------------------------------------------
(* Properties of the slash-command handler, under SpecCommand.             *)

\* C23: all failures are caught at the orchestration boundary.  Whichever
\* step fails, the error reply included, the slash-command handler's promise
\* is never rejected: the handler never ends by throwing.  (The thread and
\* message handlers keep their whole body in a try block whose catch only
\* logs; the slash-command handler's catch awaits a reply of its own.)
C23_HandlerNeverThrows ==
    interaction.pc = "done" => ~interaction.threw

\* the interaction's member lacks Manage Messages
Unpermitted == interaction.pc # "off" /\ interaction.chatInput /\ ~interaction.permitted

\* the denial as the platform stores it
DenialReply == [via |-> "reply", content |-> DenialText, ephemeral |-> TRUE]

\* C24: only members with Manage Messages can use the commands.  For a
\* slash command whose member lacks the permission no sync of a thread, no
\* sweep and no listing is started: the sync service is never called, no
\* channel is fetched, no fragment is created, no thread receives a message.
\* What the member gets is the ephemeral denial reply and nothing else; the
\* one other response there can be is the catch block's ephemeral error
\* text, after the platform rejected the denial.
C24_PermissionRequired ==
    Unpermitted =>
        /\ tasks = [k \in Tasks |-> NoTask]
        /\ interaction.fetches = 0
        /\ fragments = <<>>
        /\ \A t \in Threads : Len(messages[t]) = 1
        /\ ~interaction.deferred
        /\ Len(interaction.sent) <= 1
        /\ interaction.logs = {} => interaction.sent \in {<<>>, <<DenialReply>>}
        /\ \A j \in 1..Len(interaction.sent) :
              /\ interaction.sent[j].ephemeral
              /\ interaction.sent[j].via = "reply"
              /\ interaction.sent[j].content \in {DenialText, ErrorText}
        /\ (interaction.pc = "done" /\ interaction.logs = {}) =>
              interaction.sent = <<DenialReply>>

\* a member without the permission asked for a forced sync of thread t1 and
\* was answered with the denial
C24_Witness ==
    /\ Unpermitted
    /\ interaction.pc = "done"
    /\ interaction.commandName = "sync-forum"
    /\ interaction.threadId = "t1"
    /\ interaction.force
    /\ interaction.sent = <<DenialReply>>

-----------------------------------------------------------------------------
(* Properties of the shutdown, under SpecShutdown.                         *)

\* the operation has called the external create and has not finished
CreateInFlight(task) == task.creates >= 1 /\ task.pc # "done"

\* C25: on a shutdown signal in-flight single-thread operations finish or
\* fail naturally.  When the process has exited, every operation that had
\* called the external create has run to its end: it posted its marker or
\* its failure notice, or its own call failed.
C25_InFlightFinishBeforeExit ==
    process.pc = "exited" => \A k \in Tasks : ~CreateInFlight(tasks[k])

-----------------------------------------------------------------------------
(* Properties of the bounded lookback, under SpecLookback.                 *)

\* a bridge message carrying a decodable marker is among the newest limit
\* messages of the history
MarkerWithin(history, limit) ==
    \E i \in 1..Len(history) :
        /\ i > Len(history) - limit
        /\ history[i].author = BotUserId
        /\ MatchFragmentId(history[i].content) # Null

\* exactly one create has succeeded, the one of thread t1
OneCreate == Len(fragments) = 1 /\ fragments[1].thread = "t1"

\* this step is the sweep's processed check of slot k, its fetch answered
SweepResolved(k) ==
    /\ tasks[k].pc = "sf_resolve"
    /\ tasks'[k] # tasks[k]
    /\ ~tasks'[k].resolveFailed

\* the sweep's check said processed: the thread is counted as skipped
SweepSaidProcessed(k) ==
    tasks'[k].result.skippedThreads = tasks[k].result.skippedThreads + 1

\* this step is the reply handler's fragment-id lookup of slot k, its fetch
\* answered
LookupResolved(k) ==
    /\ tasks[k].pc = "mc_find"
    /\ tasks'[k] # tasks[k]
    /\ ~tasks'[k].resolveFailed

\* C26 as stated: for a thread with exactly one successful create, every
\* later resolve whose fetch is answered (the sweep's processed check, the
\* handlers' fragment-id lookup) reports processed, whatever was posted to
\* the thread since.
C26_AlwaysProcessed ==
    [][\A k \in Tasks :
          OneCreate =>
              /\ SweepResolved(k) => SweepSaidProcessed(k)
              /\ LookupResolved(k) => tasks'[k].fragmentId # Null]_vars

\* C26, amended: for a thread with exactly one successful create, a later
\* resolve whose fetch is answered reports processed exactly when the marker
\* is still among the newest messages the resolver fetches: 10 for the
\* sweep's processed check, 50 for the handlers' fragment-id lookup.
C26_ProcessedWithinLookback ==
    [][\A k \in Tasks :
          OneCreate =>
              /\ SweepResolved(k) =>
                    (SweepSaidProcessed(k)
                        <=> MarkerWithin(messages["t1"], ProcessedLookback))
              /\ LookupResolved(k) =>
                    (tasks'[k].fragmentId # Null
                        <=> MarkerWithin(messages["t1"], FragmentLookback))]_vars

\* after nine replies a sweep found the marker as the last message of its
\* page and skipped the thread; a tenth reply came, and its handler still
\* found the fragment id
C26_Witness ==
    /\ OneCreate
    /\ Len(messages["t1"]) = ProcessedLookback + 2
    /\ \E j \in Tasks :
          /\ tasks[j].op = "syncForum" /\ tasks[j].pc = "done"
          /\ ~tasks[j].resolveFailed
          /\ tasks[j].result.skippedThreads = 1
    /\ \E k \in Tasks :
          /\ tasks[k].op = "messageCreate" /\ tasks[k].pc = "done"
          /\ ~tasks[k].resolveFailed
          /\ tasks[k].fragmentId = FragmentIdOf(1)

\* the positions of the bridge's markers in a history
MarkerPositions(history) ==
    {i \in 1..Len(history) :
        /\ history[i].author = BotUserId
        /\ MatchFragmentId(history[i].content) # Null}

\* the thread has a marker, and more than limit messages were posted after
\* the last one
MarkerScrolledOut(history, limit) ==
    /\ MarkerPositions(history) # {}
    /\ \A i \in MarkerPositions(history) : Len(history) - i >= limit

\* C28: bounded lookback.  When at least as many messages as the sweep's
\* page holds follow a thread's marker, the sweep's processed check (its
\* fetch answered) classifies the thread as unprocessed and a sweep that is
\* not a dry run goes on to process it; once the starter message is fetched
\* the external create is called again, and a sweep that reports the thread
\* as processed has left a second fragment and a second marker, with another
\* fragment id, for the thread.
C28_DuplicateBeyondLookback ==
    /\ [][\A k \in Tasks :
             /\ (/\ SweepResolved(k)
                 /\ MarkerScrolledOut(messages[tasks[k].thread], ProcessedLookback))
                => /\ tasks'[k].result.unprocessedThreads =
                          tasks[k].result.unprocessedThreads + 1
                   /\ ~tasks[k].dryRun => tasks'[k].pc = "pt_starter"
             /\ (tasks[k].pc = "pt_starter" /\ tasks'[k].pc = "pt_create")
                => tasks'[k].creates = tasks[k].creates + 1]_vars
    /\ [](\A k \in Tasks :
             (tasks[k].op = "syncForum" /\ tasks[k].result.processedThreads >= 1)
             => /\ Len(fragments) >= 2
                /\ \A n \in 1..Len(fragments) : fragments[n].thread = "t1"
                /\ Cardinality({MatchFragmentId(messages["t1"][i].content) :
                                   i \in MarkerPositions(messages["t1"])}) >= 2)

\* ten replies followed the confirmation; a sweep found no marker in its
\* page, created a second fragment and posted a second marker
C28_Witness ==
    \E k \in Tasks :
        /\ tasks[k].op = "syncForum" /\ tasks[k].pc = "done"
        /\ ~tasks[k].resolveFailed
        /\ tasks[k].result.unprocessedThreads = 1
        /\ tasks[k].result.processedThreads = 1
        /\ Len(fragments) = 2
        /\ Len(messages["t1"]) = ProcessedLookback + 3
        /\ MarkerPositions(messages["t1"]) = {2, ProcessedLookback + 3}
        /\ MatchFragmentId(messages["t1"][ProcessedLookback + 3].content) = FragmentIdOf(2)

-----------------------------------------------------------------------------
(* Properties of the health server, under SpecHealth.                      *)

\* the probes as DEPLOYMENT.md documents them
LivenessPath == "/health/live"
ReadinessPath == "/health/ready"

\* C27: the readiness probe answers 200 when the Discord client is ready and
\* 503 when it is not; the liveness probe answers 200 whenever the process
\* runs.
C27_ProbesAnswer ==
    \A i \in 1..Len(health.answers) :
        LET a == health.answers[i]
        IN  /\ a.path = ReadinessPath => a.status = IF a.ready THEN 200 ELSE 503
            /\ a.path = LivenessPath => a.status = 200

-----------------------------------------------------------------------------
(* The sweep's process operation against the live create, under Spec.      *)

\* the operation runs processThread
IsProcess(task) == task.op \in {"syncThread", "syncForum"}

\* C29: the sweep's process operation is equivalent to the live create step.
\* For the thread it works on, processThread issues the create request the
\* live handler issues (title, body, classification, tags), sends the
\* confirmation the live handler sends when the create succeeded, and leaves
\* the failure notice in the thread when it failed.
C29_ProcessEqualsLiveCreate ==
    \A k \in Tasks :
        IsProcess(tasks[k]) =>
            /\ tasks[k].request # NoRequest =>
                  tasks[k].request =
                      CreateRequest(tasks[k].request.title, tasks[k].forum,
                                    StarterMessage(tasks[k].thread), FALSE)
            /\ tasks[k].pc = "pt_send" =>
                  \E name \in SpecNames :
                      tasks[k].pending = LiveConfirmation(tasks[k].fragment, name)
            /\ (tasks[k].pc = "done" /\ CreateFailed(tasks[k]))
               => \E i \in 1..Len(messages[tasks[k].thread]) :
                     /\ messages[tasks[k].thread][i].author = BotUserId
                     /\ messages[tasks[k].thread][i].content = FailureNotice

-----------------------------------------------------------------------------
(* Properties of the sweep's age filter, under SpecFilter.                 *)

\* the threads the two listings answered with
ListedThreads == scan.active \o scan.archived

\* the thread was created within maxAgeHours of now
CreatedWithin(thread) ==
    /\ thread.createdTimestamp # <<>>
    /\ thread.createdTimestamp[1] > Now - scan.maxAgeHours * HourMs

\* the listings arrived: the sweep is in its loop, has returned its result,
\* or threw after it resolved a thread
FetchAnswered ==
    scan.pc = "loop" \/ scan.returned = "result" \/ scan.resolved # <<>>

\* C30: a sweep only touches threads created within maxAgeHours of now.
\* Once the listings are fetched scannedThreads counts exactly the listed
\* threads created after the cutoff, and a thread created at or before the
\* cutoff, or with an unknown creation time, is never resolved, never has a
\* create called for it and never gets a message, whether it was listed as
\* active or as archived.
C30_OnlyRecentThreads ==
    /\ FetchAnswered =>
          scan.result.scannedThreads =
              Cardinality({i \in 1..Len(ListedThreads) :
                              CreatedWithin(ListedThreads[i])})
    /\ \A i \in 1..Len(ListedThreads) :
          ~CreatedWithin(ListedThreads[i]) =>
              ListedThreads[i].id \notin
                  ToSet(scan.resolved) \cup ToSet(scan.createCalls)
                      \cup ToSet(scan.posts)

\* a sweep of the last hour over an active thread created within the hour
\* and an archived thread created exactly an hour ago: the first was
\* processed, the second was not counted and not touched
C30_Witness ==
    /\ scan.pc = "done" /\ scan.returned = "result"
    /\ scan.maxAgeHours = 1
    /\ Len(scan.active) = 1 /\ Len(scan.archived) = 1
    /\ scan.active[1].createdTimestamp = <<Now - HourMs + 1>>
    /\ scan.archived[1].createdTimestamp = <<Now - HourMs>>
    /\ scan.result.scannedThreads = 1
    /\ scan.posts = <<scan.active[1].id>>

-----------------------------------------------------------------------------
(* Properties of the single-thread sync, under Spec.                       *)

\* a single-thread sync of a thread that held a confirmation when it began
SyncOfProcessed(task) ==
    task.op = "syncThread" /\ task.thread \in task.processedAtStart

-----------------------------------------------------------------------------
(* Out-of-order delivery, under Spec.                                      *)

\* the update handler of slot k was handed a title change and looked for the
\* marker before there was one: its fetch was answered and held no marker
UpdateBeforeMarker(k) ==
    /\ tasks[k].op = "threadUpdate"
    /\ tasks[k].pc = "done"
    /\ "title" \in ToSet(tasks[k].eventChanges)
    /\ ~tasks[k].resolveFailed
    /\ tasks[k].fragmentId = Null

\* C32: out-of-order delivery is resolved.  When the title-change event of a
\* thread was handled before the thread's marker existed and the
\* thread-created handler has completed with its fragment stored and its
\* marker posted, the title of that fragment is the thread's current name.
C32_OutOfOrderResolved ==
    \A j \in Tasks, k \in Tasks :
        (/\ tasks[j].op = "threadCreate"
         /\ tasks[j].pc = "done"
         /\ tasks[j].fragment # Null
         /\ CarriersOf(tasks[j].thread, tasks[j].fragment) # {}
         /\ UpdateBeforeMarker(k)
         /\ tasks[k].thread = tasks[j].thread)
        => fragments[FragmentIndex(tasks[j].fragment)].title
              = threadName[tasks[j].thread]

-----------------------------------------------------------------------------
(* Termination of the retry wrapper, under SpecRetryFair.                  *)

\* the outcome of the wrapper's latest invocation of the wrapped call
LastOutcome == retrier.history[Len(retrier.history)]

\* the wrapper may try again after a failure with this code
Retryable(errorCode) ==
    retrier.options.onlyRetryUnknownMessage => errorCode = UnknownMessage

\* what holds of a run of the wrapper at every moment: at most maxRetries
\* invocations, no invocation after a success, every failure before the
\* latest one retryable; one sleep per failure that was followed or is to be
\* followed by an invocation, so none after the final one; and the run ends
\* with the value of its only successful invocation or with null after a
\* failure that was not retryable or was the last attempt's, never by throwing
RetryRunSafe ==
    /\ Len(retrier.history) <= retrier.options.maxRetries
    /\ \A i \in 1..(Len(retrier.history) - 1) :
          retrier.history[i] # 0 /\ Retryable(retrier.history[i])
    /\ Len(retrier.sleeps) =
          IF retrier.pc = "done" THEN Len(retrier.history) - 1
          ELSE Len(retrier.history)
    /\ retrier.pc = "sleep" => Len(retrier.history) < retrier.options.maxRetries
    /\ retrier.pc = "done" <=> retrier.returned # "none"
    /\ retrier.returned \in {"none", "value", "null"}
    /\ retrier.returned = "value" => LastOutcome = 0
    /\ retrier.returned = "null" =>
          /\ LastOutcome # 0
          /\ \/ ~Retryable(LastOutcome)
             \/ Len(retrier.history) = retrier.options.maxRetries

\* C33: the retry wrapper terminates when the wrapped call settles and never
\* throws: it returns the value of the first successful attempt, or null once
\* it gives up (a non-retryable error, or the last attempt failed), and it
\* sleeps only between attempts, never after the final one.
C33_RetryTerminates == [](RetryRunSafe) /\ <>(retrier.pc = "done")

\* four attempts allowed and every error retried: three failures of three
\* kinds, each slept after, and the value of the fourth attempt returned
C33_Witness ==
    /\ retrier.options.maxRetries = 4
    /\ ~retrier.options.onlyRetryUnknownMessage
    /\ retrier.pc = "done"
    /\ retrier.history = <<-1, 50001, UnknownMessage, 0>>
    /\ Len(retrier.sleeps) = 3
    /\ retrier.returned = "value"

-----------------------------------------------------------------------------
(* The accounting of a sweep's result, under Spec.                         *)

\* the sweep of slot k has returned its SyncResult
SweepReturned(k) ==
    /\ tasks[k].op = "syncForum"
    /\ tasks[k].pc = "done"
    /\ tasks[k].returned = "result"

\* C34: in every SyncResult a channel sweep returns, scannedThreads is
\* skippedThreads plus unprocessedThreads; when dryRun is false,
\* unprocessedThreads is processedThreads plus failedThreads and the error
\* list holds one entry per failed thread.
C34_SweepAccounting ==
    \A k \in Tasks :
        SweepReturned(k) =>
            /\ tasks[k].result.scannedThreads =
                  tasks[k].result.skippedThreads + tasks[k].result.unprocessedThreads
            /\ ~tasks[k].dryRun =>
                  /\ tasks[k].result.unprocessedThreads =
                        tasks[k].result.processedThreads + tasks[k].result.failedThreads
                  /\ Len(tasks[k].result.errors) = tasks[k].result.failedThreads

-----------------------------------------------------------------------------
(* Agreement of the two resolvers, under SpecResolver.                     *)

\* C35: the two resolver implementations agree.  For every history, once
\* both have answered from a fetched page, isThreadProcessed reports
\* processed exactly when findFragmentIdInThread returns a fragment id.
C35_ResolversAgree ==
    (resolver.pc = "done" /\ resolver.findFetch.ok /\ resolver.procFetch.ok) =>
        (resolver.processed <=> resolver.fragmentId # Null)

-----------------------------------------------------------------------------
(* Fragments and their markers, under Spec.                                *)

\* the operation is a Create that has completed and whose external create
\* succeeded: the live handler or the single-thread sync, with its fragment
CreateCompleted(task) ==
    /\ task.op \in {"threadCreate", "syncThread"}
    /\ task.pc = "done"
    /\ task.fragment # Null

\* C36: no orphan fragment.  Whenever a Create has completed and its external
\* create succeeded, the thread holds a message of the bridge whose marker
\* carries the returned fragment id, also when posting the confirmation
\* failed.
C36_NoOrphanFragment ==
    \A k \in Tasks :
        CreateCompleted(tasks[k]) =>
            CarriersOf(tasks[k].thread, tasks[k].fragment) # {}

-----------------------------------------------------------------------------
(* Failure notices and the resolvers, under SpecResolver.                  *)

\* the bridge has posted in this history, and nothing but failure notices
OnlyFailureNotices(history) ==
    /\ \E i \in 1..Len(history) : history[i].author = BotUserId
    /\ \A i \in 1..Len(history) :
          history[i].author = BotUserId => history[i].content = FailureNotice

\* C37: a failure notice is never mistaken for a marker.  A thread whose only
\* messages of the bridge are failure notices is classified as unprocessed by
\* both resolvers when they read its history: isThreadProcessed says not
\* processed, which is what sends a sweep on to the create, and
\* findFragmentIdInThread returns no fragment id.
C37_NoticeIsNoMarker ==
    (/\ resolver.pc = "done"
     /\ resolver.findFetch.ok
     /\ resolver.procFetch.ok
     /\ OnlyFailureNotices(resolver.history)) =>
        /\ ~resolver.processed
        /\ resolver.fragmentId = Null

\* both resolvers have read a thread that holds a failure notice of the
\* bridge and, after it, a confirmation pasted by a human
C37_Witness ==
    /\ resolver.pc = "done"
    /\ resolver.findFetch.ok
    /\ resolver.procFetch.ok
    /\ Len(resolver.history) = 2
    /\ resolver.history[1].author = BotUserId
    /\ resolver.history[1].content = FailureNotice
    /\ resolver.history[2].author = "human"
    /\ resolver.history[2].content = LiveConfirmation(<<"a">>, <<"g">>)
    /\ ~resolver.processed

-----------------------------------------------------------------------------
(* The bridge's own messages, under Spec.                                  *)

\* the step on which the message-created event of one of the bridge's own
\* posts is handled leaves the handler returned, with no fetch awaited, no
\* request made, nothing logged and nothing posted or stored
OwnMessageIgnored ==
    \A k \in Tasks, t \in Threads :
        StartMessageCreateOwn(k, t) =>
            /\ tasks'[k].pc = "done"
            /\ tasks'[k].returned = "void"
            /\ tasks'[k].creates = 0 /\ tasks'[k].updates = 0 /\ tasks'[k].posts = 0
            /\ tasks'[k].request.kind = "none"
            /\ tasks'[k].logs = {}
            /\ messages' = messages
            /\ fragments' = fragments

\* a handler that has returned takes no further step
ReturnedStaysReturned ==
    \A k \in Tasks : tasks[k].pc = "done" => tasks'[k] = tasks[k]

\* C38: no feedback loop.  A message-created event whose author is the bridge
\* itself (its confirmation or its failure notice) causes no fetch, no external
\* create or update call and no posted message: the handler returns on the
\* step that receives the event and does nothing afterwards.
C38_NoFeedbackLoop == [][OwnMessageIgnored /\ ReturnedStaysReturned]_vars

\* the live handler posted its confirmation in a tracked thread and the
\* message-created event of that post has been handled
C38_Witness ==
    \E j \in Tasks, k \in Tasks :
        /\ tasks[j].op = "threadCreate" /\ tasks[j].pc = "done" /\ tasks[j].posts = 1
        /\ tasks[j].fragment # Null
        /\ tasks[k].op = "messageCreate" /\ tasks[k].pc = "done"
        /\ tasks[k].thread = tasks[j].thread
        /\ isForumTracked(tasks[k].forum)
        /\ tasks[k].logs = {}
        /\ Cardinality({i \in 1..Len(messages[tasks[k].thread]) :
                           messages[tasks[k].thread][i].author = BotUserId}) = 1

-----------------------------------------------------------------------------
(* Concurrent reply-driven updates, under SpecUpdate.                      *)

\* the text holds this block of tokens, contiguously
HasBlock(content, block) ==
    \E i \in 0..(Len(content) - Len(block)) :
        SubSeq(content, i + 1, i + Len(block)) = block

\* the reply-driven updates of thread t
ReplyUpdates(t) ==
    {k \in Tasks : tasks[k].op = "messageCreateUpdating" /\ tasks[k].thread = t}

\* the reply handler of slot k found the fragment, built the conversation and
\* had its update applied
ReplyUpdateApplied(k) ==
    /\ tasks[k].pc = "done"
    /\ tasks[k].fragmentId # Null
    /\ Log("info", "Successfully updated") \in tasks[k].logs

\* C39: no lost reply under concurrency.  When several human replies to one
\* processed thread were handled by reply-driven updates that ran
\* concurrently, and all of them have completed with their update applied,
\* the body of the fragment (the body last written) holds every human message
\* of the thread, for every interleaving of their fetches and update calls.
C39_NoLostReply ==
    \A t \in Threads :
        (/\ Cardinality(ReplyUpdates(t)) >= 2
         /\ \A k \in ReplyUpdates(t) : ReplyUpdateApplied(k)
         /\ \A k \in Tasks : tasks[k].pc \in {"idle", "done"})
        => \A k \in ReplyUpdates(t), i \in 1..Len(messages[t]) :
              ~IsBot(messages[t][i].author) =>
                  HasBlock(fragments[FragmentIndex(tasks[k].fragmentId)].content,
                           FormatBlock(messages[t][i]))

-----------------------------------------------------------------------------
(* What a single-thread sync reports, under Spec.                          *)

\* C40: a single-thread sync reports success only if the thread holds, within
\* the lookback, a message of the bridge that carries a marker (one the
\* resolver found, or the one the sync has just posted); in particular it
\* does not report success when the resolver's message fetch failed.
C40_SuccessMeansMarker ==
    \A k \in Tasks :
        (tasks[k].op = "syncThread" /\ tasks[k].returned = "true") =>
            /\ MarkerWithin(messages[tasks[k].thread], ProcessedLookback)
            /\ ~tasks[k].resolveFailed

=============================================================================
